---- MODULE Spec2Model ----
(***************************************************************************)
(* A model of the literary knowledge-graph engine: the graph store and its *)
(* batch merge (addNewDataToGraph), the foreground queries, the background *)
(* enrichment loop, the LRU cache and the sliding-window rate limiter.     *)
(*                                                                         *)
(* Optional values (null / undefined in the source) are modelled as        *)
(* sequences of length 0 or 1: None is <<>>, Some(v) is <<v>>.             *)
(* Node sizes are kept in thousandths (0.6 is 600).                        *)
(***************************************************************************)
EXTENDS Integers, Sequences, FiniteSets, TLC

VARIABLES
    nodes,                  \* state.nodes, in key insertion order
    edges,                  \* state.edges
    caption,                \* state.caption
    latestQueryTimestamp,   \* state.latestQueryTimestamp
    isFetching,             \* state.isFetching
    selectedNode,           \* state.selectedNode
    expandingNodeId,        \* state.expandingNodeId
    isGroundedSearchActive, \* state.isGroundedSearchActive
    connectionMode,         \* state.connectionMode
    connectionStartNode,    \* state.connectionStartNode
    connectionEndNode,      \* state.connectionEndNode
    connectionPath,         \* state.connectionPath
    queries,                \* foreground queries awaiting their upstream result
    enrichTasks,            \* running backgroundEnrichNodes invocations
    now,                    \* Date.now()
    cache,                  \* LRUCache.cache, in Map order
    cacheTimestamps,        \* LRUCache.timestamps
    touchOrder,             \* history: the keys in the order of their last set or get
    insertedAt,             \* history: the time of each key's last set
    limiterTimestamps,      \* RateLimiter.timestamps
    admissions,             \* history: the times of the admitted checks
    wasRejected,            \* history: some check was rejected
    lastApiCallTimestamp,   \* libraryApi.ts: lastApiCallTimestamp
    sleepers,               \* throttledFetch invocations waiting in setTimeout
    fetchTimes,             \* history: the times at which fetch(url) was issued
    retry,                  \* the running retryWithBackoff invocation
    visualizationMode,      \* state.visualizationMode
    bookGrid,               \* state.bookGrid
    gridTasks,              \* seedGrid / populateGridSuggestions awaiting a result
    savedGraph,             \* localStorage[STORAGE_KEYS.GRAPH_DATA]
    requests,               \* fetchOpenLibrary invocations awaiting a timer or a response
    summaryTasks,           \* generateAiSummary invocations awaiting queryLlm
    journeyTasks,           \* startJourney invocations awaiting their file or a timer
    didInit                 \* the store's didInit flag

storeVars == <<nodes, edges, caption, latestQueryTimestamp, isFetching, selectedNode,
               expandingNodeId, isGroundedSearchActive>>
connectionVars == <<connectionMode, connectionStartNode, connectionEndNode, connectionPath>>
cacheVars == <<cache, cacheTimestamps, touchOrder, insertedAt>>
limiterVars == <<limiterTimestamps, admissions, wasRejected>>
throttleVars == <<lastApiCallTimestamp, sleepers, fetchTimes>>
gridVars == <<visualizationMode, bookGrid, gridTasks>>
auxVars == <<requests, summaryTasks, journeyTasks, didInit>>
auxTasks == <<summaryTasks, journeyTasks, didInit>>
extVars == <<throttleVars, retry, gridVars, savedGraph, auxVars>>
utilVars == <<cacheVars, limiterVars, extVars>>
vars == <<nodes, edges, caption, latestQueryTimestamp, isFetching, selectedNode,
          expandingNodeId, isGroundedSearchActive, connectionMode, connectionStartNode,
          connectionEndNode, connectionPath, queries, enrichTasks, now, utilVars>>

----------------------------------------------------------------------------
(* Bounds of the model.                                                    *)

MaxTime == 2
MaxNodes == 2
MaxEdges == 2
MaxBatchNodes == 2
MaxBatchEdges == 2
MaxBatchItems == 3
MaxEnrichTasks == 1

----------------------------------------------------------------------------
(* Values.                                                                 *)

None == <<>>
Some(v) == <<v>>

Types == {"book", "author"}
Labels == {"A", "B"}

\* JavaScript truthiness of an optional string / an optional number.
TruthyStr(o) == o # None /\ o[1] # ""
TruthyNum(o) == o # None /\ o[1] # 0

SeqsUpTo(S, n) == UNION {[1..k -> S] : k \in 0..n}

----------------------------------------------------------------------------
(* addNewDataToGraph: ids and lookups.                                     *)

NodeId(type, label) == type \o ":" \o label

\* The existence test keyed by the bare label, which is never a key of the map.
NodeExistsByLabelKey(ns, id) == \E i \in DOMAIN ns : ns[i].label = id

NodeExists(ns, id) == \E i \in DOMAIN ns : ns[i].id = id

NodeAt(ns, id) == ns[CHOOSE i \in DOMAIN ns : ns[i].id = id]

\* state.nodes[id] = rec: a new key goes last, an existing key keeps its place.
PutNode(ns, id, rec) ==
    IF \E i \in DOMAIN ns : ns[i].id = id
    THEN [i \in DOMAIN ns |-> IF ns[i].id = id THEN rec ELSE ns[i]]
    ELSE Append(ns, rec)

NodeIds(ns) == {ns[i].id : i \in DOMAIN ns}

\* A label resolved to a book id without looking it up in the store.
FindByLabelAssumed(ns, label) == Some("book" \o ":" \o label)

\* Object.values(state.nodes).find(n => n.label === label): the first node, in
\* key order, that carries the label; None when there is none.
FindByLabel(ns, label) ==
    IF \E i \in DOMAIN ns : ns[i].label = label
    THEN LET i == CHOOSE j \in DOMAIN ns :
                     /\ ns[j].label = label
                     /\ \A k \in 1..(j - 1) : ns[k].label # label
         IN  Some(ns[i].id)
    ELSE None

EdgeKey(source, target) == source \o "->" \o target

----------------------------------------------------------------------------
(* addNewDataToGraph: the node loop.                                       *)

NewNode(node, id, queryTimestamp) ==
    [id |-> id, label |-> node.label, type |-> node.type,
     description |-> node.description,
     publicationYear |-> node.publicationYear,
     series |-> node.series,
     api_key |-> node.api_key,
     imageUrl |-> node.imageUrl,
     aiSummary |-> None,
     lastUpdated |-> queryTimestamp,
     size |-> 0]

\* The merge without the test that the stored field is unset.
MergeNodeOverwriting(old, node, queryTimestamp) ==
    [old EXCEPT
       !.lastUpdated = queryTimestamp,
       !.publicationYear = IF TruthyNum(node.publicationYear) THEN node.publicationYear ELSE @,
       !.series = IF TruthyStr(node.series) THEN node.series ELSE @,
       !.api_key = IF TruthyStr(node.api_key) THEN node.api_key ELSE @,
       !.imageUrl = IF TruthyStr(node.imageUrl) THEN node.imageUrl ELSE @]

MergeNode(old, node, queryTimestamp) ==
    [old EXCEPT
       !.lastUpdated = queryTimestamp,
       !.publicationYear =
           IF TruthyNum(node.publicationYear) /\ ~TruthyNum(old.publicationYear)
           THEN node.publicationYear ELSE @,
       !.series =
           IF TruthyStr(node.series) /\ ~TruthyStr(old.series)
           THEN node.series ELSE @,
       !.api_key =
           IF TruthyStr(node.api_key) /\ ~TruthyStr(old.api_key)
           THEN node.api_key ELSE @,
       !.imageUrl =
           IF TruthyStr(node.imageUrl) /\ ~TruthyStr(old.imageUrl)
           THEN node.imageUrl ELSE @]

\* newNodes.forEach(...): acc is [nodes, newNodeIds].
RECURSIVE MergeNodes(_, _, _, _)
MergeNodes(acc, newNodes, index, queryTimestamp) ==
    IF index > Len(newNodes) THEN acc
    ELSE LET node == newNodes[index]
             id == NodeId(node.type, node.label)
         IN  IF ~NodeExists(acc.nodes, id)
             THEN MergeNodes(
                      [nodes |-> PutNode(acc.nodes, id, NewNode(node, id, queryTimestamp)),
                       newNodeIds |-> Append(acc.newNodeIds, id)],
                      newNodes, index + 1, queryTimestamp)
             ELSE MergeNodes(
                      [nodes |-> PutNode(acc.nodes, id,
                                         MergeNode(NodeAt(acc.nodes, id), node, queryTimestamp)),
                       newNodeIds |-> acc.newNodeIds],
                      newNodes, index + 1, queryTimestamp)

----------------------------------------------------------------------------
(* addNewDataToGraph: the edge loop.                                       *)

ExistingEdges(es) == {EdgeKey(es[i].source, es[i].target) : i \in DOMAIN es}

\* The dedup test for the incoming direction only.
EdgeIsNewOneWay(existingEdges, sourceId, targetId) ==
    (sourceId \o "->" \o targetId) \notin existingEdges

\* Whether the loop may push an edge source -> target, given the dedup set.
EdgeIsNew(existingEdges, sourceId, targetId) ==
    /\ EdgeKey(sourceId, targetId) \notin existingEdges
    /\ EdgeKey(targetId, sourceId) \notin existingEdges

\* newEdges.forEach(...): acc is [edges, existingEdges].
RECURSIVE InsertEdges(_, _, _, _)
InsertEdges(acc, ns, newEdges, index) ==
    IF index > Len(newEdges) THEN acc
    ELSE LET edge == newEdges[index]
             sourceNode == FindByLabel(ns, edge.source)
             targetNode == FindByLabel(ns, edge.target)
         IN  IF /\ sourceNode # None
                /\ targetNode # None
                /\ EdgeIsNew(acc.existingEdges, sourceNode[1], targetNode[1])
             THEN InsertEdges(
                      [edges |-> Append(acc.edges,
                                        [source |-> sourceNode[1], target |-> targetNode[1]]),
                       existingEdges |-> acc.existingEdges \cup
                                           {EdgeKey(sourceNode[1], targetNode[1]),
                                            EdgeKey(targetNode[1], sourceNode[1])}],
                      ns, newEdges, index + 1)
             ELSE InsertEdges(acc, ns, newEdges, index + 1)

----------------------------------------------------------------------------
(* addNewDataToGraph: connection counts and sizes.                         *)

BaseSize == 600
MaxSize == 1600
MinSize == 600
GrowthFactor == 180

\* Math.sqrt on whole thousandths: the largest r with r * r <= n.
RECURSIVE ISqrtBetween(_, _, _)
ISqrtBetween(n, lo, hi) ==
    IF lo >= hi THEN lo
    ELSE LET mid == (lo + hi + 1) \div 2
         IN  IF mid * mid <= n THEN ISqrtBetween(n, mid, hi)
                               ELSE ISqrtBetween(n, lo, mid - 1)

ISqrt(n) == ISqrtBetween(n, 0, IF n < 40000 THEN n ELSE 40000)

\* Counting an edge for its source only.
RECURSIVE ConnectionCountsSourceOnly(_, _, _)
ConnectionCountsSourceOnly(counts, es, index) ==
    IF index > Len(es) THEN counts
    ELSE ConnectionCountsSourceOnly(
             IF es[index].source \in DOMAIN counts
             THEN [counts EXCEPT ![es[index].source] = @ + 1] ELSE counts,
             es, index + 1)

\* state.edges.forEach(edge => { counts[edge.source]++; counts[edge.target]++ })
RECURSIVE ConnectionCounts(_, _, _)
ConnectionCounts(counts, es, index) ==
    IF index > Len(es) THEN counts
    ELSE LET edge == es[index]
             c1 == IF edge.source \in DOMAIN counts
                   THEN [counts EXCEPT ![edge.source] = @ + 1] ELSE counts
             c2 == IF edge.target \in DOMAIN c1
                   THEN [c1 EXCEPT ![edge.target] = @ + 1] ELSE c1
         IN  ConnectionCounts(c2, es, index + 1)

\* The growth term truncated to a whole number before it is added.
SizeForTruncated(connections) ==
    LET calculatedSize == BaseSize + (ISqrt(connections * GrowthFactor * GrowthFactor) \div 1000) * 1000
        capped == IF calculatedSize < MaxSize THEN calculatedSize ELSE MaxSize
    IN  IF capped > MinSize THEN capped ELSE MinSize

\* Math.max(minSize, Math.min(maxSize, baseSize + Math.sqrt(connections) * 0.18))
SizeFor(connections) ==
    LET calculatedSize == BaseSize + ISqrt(connections * GrowthFactor * GrowthFactor)
        capped == IF calculatedSize < MaxSize THEN calculatedSize ELSE MaxSize
    IN  IF capped > MinSize THEN capped ELSE MinSize

RecomputeSizes(ns, es) ==
    LET counts == ConnectionCounts([id \in NodeIds(ns) |-> 0], es, 1)
    IN  [i \in DOMAIN ns |-> [ns[i] EXCEPT !.size = SizeFor(counts[ns[i].id])]]

----------------------------------------------------------------------------
(* backgroundEnrichNodes: one task per invocation.  A task waits either    *)
(* for findApiKeyForNode (pc = "key") or for ensureBookImage /             *)
(* ensureAuthorImage (pc = "image") of the node at the head of its queue;  *)
(* cur is its local copy currentNodeState, of which only these fields are  *)
(* read again.                                                             *)

Snapshot(node) ==
    [type |-> node.type, label |-> node.label, api_key |-> node.api_key,
     imageUrl |-> node.imageUrl]

\* From step 2 of the loop body for the head of the queue, run to the next await.
RECURSIVE EnrichFromImage(_, _, _)
RECURSIVE EnrichLoop(_, _)

\* Step 2 without the test that the local copy has no imageUrl yet.
EnrichFromImageAlways(ns, queue, cur) ==
    IF cur.type \in {"author", "book"}
    THEN Some([queue |-> queue, pc |-> "image", cur |-> cur])
    ELSE EnrichLoop(ns, Tail(queue))

EnrichFromImage(ns, queue, cur) ==
    IF ~TruthyStr(cur.imageUrl) /\ cur.type \in {"author", "book"}
    THEN Some([queue |-> queue, pc |-> "image", cur |-> cur])
    ELSE EnrichLoop(ns, Tail(queue))

\* From the top of the loop, run to the next await; None when the loop ends.
EnrichLoop(ns, queue) ==
    IF queue = <<>> THEN None
    ELSE IF ~NodeExists(ns, Head(queue)) THEN EnrichLoop(ns, Tail(queue))
    ELSE LET currentNodeState == Snapshot(NodeAt(ns, Head(queue)))
         IN  IF /\ currentNodeState.type \in {"book", "author"}
                /\ ~TruthyStr(currentNodeState.api_key)
             THEN Some([queue |-> queue, pc |-> "key", cur |-> currentNodeState])
             ELSE EnrichFromImage(ns, queue, currentNodeState)

\* backgroundEnrichNodes(nodeIds), up to its first await.
BackgroundEnrichNodes(ns, nodeIds) ==
    EnrichLoop(ns, SelectSeq(nodeIds, LAMBDA id : NodeExists(ns, id)))

\* set(state => { if (state.nodes[id]) state.nodes[id][field] = value })
WriteIfPresent(ns, id, field, value) ==
    [i \in DOMAIN ns |-> IF ns[i].id = id THEN [ns[i] EXCEPT ![field] = value] ELSE ns[i]]

----------------------------------------------------------------------------
(* addNewDataToGraph as a function of the store.  data is None (no data),  *)
(* or Some of [nodes, edges, commentary], where nodes and edges are in     *)
(* turn optional lists.                                                    *)

AddOutcome(data, timestamp, skipEnrichment) ==
    IF data = None \/ data[1].nodes = None \/ Len(data[1].nodes[1]) = 0
    THEN [status |-> "noop", nodes |-> nodes, edges |-> edges, caption |-> caption,
          enrichTasks |-> enrichTasks, primaryNodeId |-> None, newNodeIds |-> <<>>]
    ELSE IF data[1].edges = None
    THEN \* newEdges.forEach on undefined throws inside the producer: no update.
         [status |-> "threw", nodes |-> nodes, edges |-> edges, caption |-> caption,
          enrichTasks |-> enrichTasks, primaryNodeId |-> None, newNodeIds |-> <<>>]
    ELSE LET newNodes == data[1].nodes[1]
             newEdges == data[1].edges[1]
             primaryNode == newNodes[1]
             queryTimestamp ==
                 IF timestamp # None THEN timestamp[1]
                 ELSE IF latestQueryTimestamp # None THEN latestQueryTimestamp[1]
                 ELSE now
             merged == MergeNodes([nodes |-> nodes, newNodeIds |-> <<>>],
                                  newNodes, 1, queryTimestamp)
             inserted == InsertEdges([edges |-> edges,
                                      existingEdges |-> ExistingEdges(edges)],
                                     merged.nodes, newEdges, 1)
             sized == RecomputeSizes(merged.nodes, inserted.edges)
             task == IF ~skipEnrichment /\ Len(merged.newNodeIds) > 0
                     THEN BackgroundEnrichNodes(sized, merged.newNodeIds)
                     ELSE None
         IN  [status |-> "ok", nodes |-> sized, edges |-> inserted.edges,
              caption |-> data[1].commentary,
              enrichTasks |-> enrichTasks \o task,
              primaryNodeId |-> Some(NodeId(primaryNode.type, primaryNode.label)),
              newNodeIds |-> merged.newNodeIds]

WithinBounds(r) ==
    /\ Len(r.nodes) <= MaxNodes
    /\ Len(r.edges) <= MaxEdges
    /\ Len(r.enrichTasks) <= MaxEnrichTasks

----------------------------------------------------------------------------
(* Actions of the graph store.                                             *)

\* A call of the exported addNewDataToGraph (a bootstrap or an import-style
\* caller): the whole function, its set() and the enrichment it starts.
addNewDataToGraph(data, timestamp, skipEnrichment) ==
    \E r \in {AddOutcome(data, timestamp, skipEnrichment)} :
        /\ WithinBounds(r)
        /\ nodes' = r.nodes
        /\ edges' = r.edges
        /\ caption' = r.caption
        /\ enrichTasks' = r.enrichTasks
        /\ UNCHANGED <<latestQueryTimestamp, isFetching, selectedNode, expandingNodeId,
                       isGroundedSearchActive, connectionVars, queries, now, utilVars>>

\* The bookGrid of the initial state, which clearQuery restores.
EmptyBookGrid == [slots |-> <<>>, isSeeded |-> FALSE, isLoading |-> FALSE,
                  dismissedBooks |-> <<>>]

clearQuery ==
    /\ connectionMode' = "inactive"
    /\ connectionStartNode' = None
    /\ connectionEndNode' = None
    /\ connectionPath' = <<>>
    /\ nodes' = <<>>
    /\ edges' = <<>>
    /\ caption' = Some("Universe reset. Choose a journey or start a new search.")
    /\ selectedNode' = None
    /\ latestQueryTimestamp' = None
    /\ visualizationMode' = "graph"
    /\ bookGrid' = EmptyBookGrid
    /\ UNCHANGED <<isFetching, expandingNodeId, isGroundedSearchActive, queries,
                   enrichTasks, now, cacheVars, limiterVars, savedGraph, auxVars, throttleVars,
                   retry, gridTasks>>

\* findApiKeyForNode settles for the task at index t with apiKey (None: null).
\* frozen: the snapshot currentNodeState is a frozen object of the store, so the
\* assignment to the local copy throws and the invocation ends there.
enrichKeySettles(t, apiKey, frozen) ==
    /\ t \in DOMAIN enrichTasks
    /\ enrichTasks[t].pc = "key"
    /\ frozen => apiKey # None
    /\ LET task == enrichTasks[t]
           id == Head(task.queue)
           ns == IF apiKey # None THEN WriteIfPresent(nodes, id, "api_key", apiKey)
                                  ELSE nodes
           cur == IF apiKey # None THEN [task.cur EXCEPT !.api_key = apiKey]
                                   ELSE task.cur
           next == IF frozen THEN None ELSE EnrichFromImage(ns, task.queue, cur)
       IN  /\ nodes' = ns
           /\ enrichTasks' = SubSeq(enrichTasks, 1, t - 1) \o next
                               \o SubSeq(enrichTasks, t + 1, Len(enrichTasks))
    /\ UNCHANGED <<edges, caption, latestQueryTimestamp, isFetching, selectedNode,
                   expandingNodeId, isGroundedSearchActive, connectionVars, queries, now, utilVars>>

\* ensureBookImage / ensureAuthorImage settles for the task at index t.  Without
\* an api_key on the local copy both return null.
enrichImageSettles(t, imageUrl) ==
    /\ t \in DOMAIN enrichTasks
    /\ enrichTasks[t].pc = "image"
    /\ imageUrl # None => TruthyStr(enrichTasks[t].cur.api_key)
    /\ LET task == enrichTasks[t]
           id == Head(task.queue)
           ns == IF imageUrl # None THEN WriteIfPresent(nodes, id, "imageUrl", imageUrl)
                                    ELSE nodes
       IN  /\ nodes' = ns
           /\ enrichTasks' = SubSeq(enrichTasks, 1, t - 1) \o EnrichLoop(ns, Tail(task.queue))
                               \o SubSeq(enrichTasks, t + 1, Len(enrichTasks))
    /\ UNCHANGED <<edges, caption, latestQueryTimestamp, isFetching, selectedNode,
                   expandingNodeId, isGroundedSearchActive, connectionVars, queries, now, utilVars>>

Tick ==
    /\ now < MaxTime
    /\ now' = now + 1
    /\ UNCHANGED <<storeVars, connectionVars, queries, enrichTasks, utilVars>>

----------------------------------------------------------------------------
(* Inputs.                                                                 *)

Bare ==
    [description |-> None, publicationYear |-> None, series |-> None,
     api_key |-> None, imageUrl |-> None]

Entity(type, label, f) ==
    [type |-> type, label |-> label, description |-> f.description,
     publicationYear |-> f.publicationYear, series |-> f.series,
     api_key |-> f.api_key, imageUrl |-> f.imageUrl]

EdgeInputs == {[source |-> s, target |-> t] : s \in Labels, t \in Labels}

Batch(ns, es) == Some([nodes |-> Some(ns), edges |-> es, commentary |-> Some("commentary")])

\* An entity without type and label: both read as undefined, which the id
\* template renders as "undefined".
UntypedEntity == Entity("undefined", "undefined", Bare)

\* Data without an entity list, with an empty one, without an edge list, or
\* with an entity list that holds an entity without type and label.
MalformedData ==
    {None,
     Some([nodes |-> None, edges |-> Some(<<>>), commentary |-> Some("commentary")]),
     Batch(<<>>, Some(<<>>)),
     Batch(<<Entity("book", "A", Bare)>>, None),
     Batch(<<UntypedEntity>>, Some(<<>>))}

\* A book and an author that share the label A, and an author B.
GraphEntities ==
    {Entity("book", "A", Bare), Entity("author", "A", Bare), Entity("author", "B", Bare)}

BatchesOf(entities) ==
    {Batch(p[1], Some(p[2])) :
        p \in {q \in (SeqsUpTo(entities, MaxBatchNodes) \ {<<>>})
                       \X SeqsUpTo(EdgeInputs, MaxBatchEdges) :
                 Len(q[1]) + Len(q[2]) <= MaxBatchItems}}

GraphData == MalformedData \cup BatchesOf(GraphEntities)

ApiKeys == {None, Some("/works/OL1W")}
ImageUrls == {None, Some("https://covers.openlibrary.org/b/id/1-L.jpg")}

----------------------------------------------------------------------------
(* The graph store: batches, resets and background enrichment.             *)

InitState ==
    /\ nodes = <<>>
    /\ edges = <<>>
    /\ caption = None
    /\ latestQueryTimestamp = None
    /\ isFetching = FALSE
    /\ selectedNode = None
    /\ expandingNodeId = None
    /\ isGroundedSearchActive = FALSE
    /\ connectionMode = "inactive"
    /\ connectionStartNode = None
    /\ connectionEndNode = None
    /\ connectionPath = <<>>
    /\ queries = <<>>
    /\ enrichTasks = <<>>
    /\ cache = <<>>
    /\ cacheTimestamps = <<>>
    /\ touchOrder = <<>>
    /\ insertedAt = <<>>
    /\ limiterTimestamps = <<>>
    /\ admissions = <<>>
    /\ wasRejected = FALSE
    /\ lastApiCallTimestamp = 0
    /\ sleepers = <<>>
    /\ fetchTimes = <<>>
    /\ retry = None
    /\ visualizationMode = "graph"
    /\ bookGrid = EmptyBookGrid
    /\ gridTasks = <<>>
    /\ savedGraph = None
    /\ requests = <<>>
    /\ summaryTasks = <<>>
    /\ journeyTasks = <<>>
    /\ didInit = FALSE

Init == InitState /\ now = 1

Next ==
    \/ \E data \in GraphData, skipEnrichment \in BOOLEAN :
           addNewDataToGraph(data, None, skipEnrichment)
    \/ clearQuery
    \/ \E t \in 1..MaxEnrichTasks, apiKey \in ApiKeys, frozen \in BOOLEAN :
           enrichKeySettles(t, apiKey, frozen)
    \/ \E t \in 1..MaxEnrichTasks, imageUrl \in ImageUrls : enrichImageSettles(t, imageUrl)

Spec == Init /\ [][Next]_vars

----------------------------------------------------------------------------
(* Properties of the graph store.                                          *)

EndpointsOf(e) == {e.source, e.target}

\* C1: every stored edge has a source id and a target id that are both ids of
\* stored nodes, after any sequence of batches, resets and enrichment writes.
C1_NoDanglingEdges ==
    \A i \in DOMAIN edges :
        /\ edges[i].source \in NodeIds(nodes)
        /\ edges[i].target \in NodeIds(nodes)

\* C1 witness: an edge is stored while an enrichment write has landed on a node
\* and the enrichment loop is still running.
C1_Witness ==
    /\ Len(edges) >= 1
    /\ \E i \in DOMAIN nodes : nodes[i].api_key # None
    /\ enrichTasks # <<>>

\* C2: no two stored edges connect the same unordered pair of node ids.
C2_NoDuplicatePair ==
    \A i \in DOMAIN edges : \A j \in DOMAIN edges :
        i # j => EndpointsOf(edges[i]) # EndpointsOf(edges[j])

\* C2 witness: an edge between two distinct nodes is stored, and a batch that
\* names the same pair in the opposite direction, twice, adds nothing.
C2_Witness ==
    \E i \in DOMAIN edges :
        /\ edges[i].source # edges[i].target
        /\ \E data \in BatchesOf(GraphEntities) :
              LET es == data[1].edges[1]
                  r == AddOutcome(data, None, TRUE)
              IN  /\ Len(es) = 2
                  /\ es[1] = es[2]
                  /\ FindByLabel(nodes, es[1].source) = Some(edges[i].target)
                  /\ FindByLabel(nodes, es[1].target) = Some(edges[i].source)
                  /\ r.edges = edges

Range(seq) == {seq[i] : i \in DOMAIN seq}

NoRepetition(seq) == \A i \in DOMAIN seq : \A j \in DOMAIN seq : i # j => seq[i] # seq[j]

Stored(ns, type, label) == \E i \in DOMAIN ns : ns[i].type = type /\ ns[i].label = label

OneNodePerIdentity(ns) ==
    \A i \in DOMAIN ns : \A j \in DOMAIN ns :
        i # j => ~(ns[i].type = ns[j].type /\ ns[i].label = ns[j].label)

\* C3: a batch entity whose (type, label) already identifies a stored node, or an
\* earlier entity of the same batch, creates no second node: the node count grows
\* only by the number of identities that were not stored, no stored identity is
\* reported in newNodeIds, a new identity is reported once, and the store never
\* holds two nodes with the same (type, label).
C3_NoSecondNode ==
    /\ OneNodePerIdentity(nodes)
    /\ \A data \in BatchesOf(GraphEntities) :
          LET incoming == data[1].nodes[1]
              r == AddOutcome(data, None, TRUE)
              fresh == {<<incoming[k].type, incoming[k].label>> : k \in
                          {m \in DOMAIN incoming :
                              ~Stored(nodes, incoming[m].type, incoming[m].label)}}
          IN  /\ Len(r.nodes) = Len(nodes) + Cardinality(fresh)
              /\ Len(r.newNodeIds) = Cardinality(fresh)
              /\ NoRepetition(r.newNodeIds)
              /\ Range(r.newNodeIds) \cap NodeIds(nodes) = {}
              /\ OneNodePerIdentity(r.nodes)

\* C3 witness: a node is stored, and a batch that names its identity twice leaves
\* the node count as it is and reports no new id.
C3_Witness ==
    /\ nodes # <<>>
    /\ \E data \in BatchesOf(GraphEntities) :
          LET incoming == data[1].nodes[1]
              r == AddOutcome(data, None, TRUE)
          IN  /\ Len(incoming) = 2
              /\ incoming[1] = incoming[2]
              /\ Stored(nodes, incoming[1].type, incoming[1].label)
              /\ Len(r.nodes) = Len(nodes)
              /\ r.newNodeIds = <<>>

Clamp(x, lo, hi) == IF x < lo THEN lo ELSE IF x > hi THEN hi ELSE x

\* clamp(baseSize + sqrt(degree) * growthFactor, minSize, maxSize), in thousandths.
ClaimedSize(degree) ==
    Clamp(BaseSize + ISqrt(degree * GrowthFactor * GrowthFactor), MinSize, MaxSize)

EdgesTouching(id) == {j \in DOMAIN edges : edges[j].source = id \/ edges[j].target = id}

EndpointsAt(id) ==
    Cardinality({j \in DOMAIN edges : edges[j].source = id})
      + Cardinality({j \in DOMAIN edges : edges[j].target = id})

MaxDegreeChecked == 40

SizeMonotoneAndBounded ==
    \A d \in 0..MaxDegreeChecked :
        /\ SizeFor(d) <= SizeFor(d + 1)
        /\ MinSize <= SizeFor(d)
        /\ SizeFor(d) <= MaxSize

\* C6 as claimed: every node's size is the clamped formula of the number of
\* stored edges that touch the node.
C6_SizeOfEdgesTouching ==
    \A i \in DOMAIN nodes :
        nodes[i].size = ClaimedSize(Cardinality(EdgesTouching(nodes[i].id)))

\* C6 as amended: every node's size is the clamped formula of its degree, where
\* the degree counts edge endpoints at the node, so that an edge from a node to
\* itself counts twice; the size is non-decreasing in the degree and within
\* [minSize, maxSize].
C6_SizeOfEndpoints ==
    /\ \A i \in DOMAIN nodes : nodes[i].size = ClaimedSize(EndpointsAt(nodes[i].id))
    /\ SizeMonotoneAndBounded

\* C6 witness: a node carries an edge to itself and its size is that of degree 2.
C6_Witness ==
    \E i \in DOMAIN nodes :
        /\ \E j \in DOMAIN edges : edges[j].source = nodes[i].id /\ edges[j].target = nodes[i].id
        /\ Cardinality(EdgesTouching(nodes[i].id)) = 1
        /\ nodes[i].size = ClaimedSize(2)

\* Scenario A: two entities and one edge whose source and target are their labels.
ScenarioA(data, distinctLabels) ==
    LET ns == data[1].nodes[1]
        es == data[1].edges[1]
    IN  /\ Len(ns) = 2
        /\ Len(es) = 1
        /\ <<ns[1].type, ns[1].label>> # <<ns[2].type, ns[2].label>>
        /\ distinctLabels => ns[1].label # ns[2].label
        /\ \/ es[1].source = ns[1].label /\ es[1].target = ns[2].label
           \/ es[1].source = ns[2].label /\ es[1].target = ns[1].label

ScenarioAYields(r) ==
    /\ Len(r.nodes) = 2
    /\ Len(r.edges) = 1
    /\ \A i \in DOMAIN r.nodes : r.nodes[i].size > BaseSize

\* C7 as claimed: on an empty graph, a batch of two entities of distinct identity
\* and one edge naming them by label yields 2 nodes and 1 edge, both nodes larger
\* than the base size.
C7_ScenarioDistinctIdentity ==
    nodes = <<>> =>
        \A data \in BatchesOf(GraphEntities) :
            ScenarioA(data, FALSE) => ScenarioAYields(AddOutcome(data, None, TRUE))

\* C7 as amended: the same, for two entities with distinct labels.
C7_ScenarioDistinctLabels ==
    nodes = <<>> =>
        \A data \in BatchesOf(GraphEntities) :
            ScenarioA(data, TRUE) => ScenarioAYields(AddOutcome(data, None, TRUE))

\* C7 witness: the graph made by such a batch: two nodes with distinct labels,
\* created together, joined by the one edge, both larger than the base size.
C7_Witness ==
    /\ Len(nodes) = 2
    /\ Len(edges) = 1
    /\ nodes[1].label # nodes[2].label
    /\ EndpointsOf(edges[1]) = {nodes[1].id, nodes[2].id}
    /\ \A i \in DOMAIN nodes : nodes[i].size > BaseSize
    /\ enrichTasks # <<>> /\ Len(enrichTasks[1].queue) = 2

----------------------------------------------------------------------------
(* Merging into one node: batches of a single entity book:A whose fields   *)
(* are unset, falsy (0, the empty string) or one of two proper values.     *)

MergeFields ==
    [description : {None, Some("d1"), Some("d2")},
     publicationYear : {None, Some(0), Some(1965), Some(1984)},
     series : {None, Some(""), Some("s1"), Some("s2")},
     api_key : {None, Some(""), Some("/works/OL1W"), Some("/works/OL2W")},
     imageUrl : {None, Some(""), Some("cover1.jpg"), Some("cover2.jpg")}]

MergeData == {Batch(<<Entity("book", "A", f)>>, Some(<<>>)) : f \in MergeFields}

NextMerge ==
    \/ \E data \in MergeData : addNewDataToGraph(data, None, TRUE)
    \/ clearQuery

SpecMerge == Init /\ [][NextMerge]_vars

FieldNames == {"description", "publicationYear", "series", "api_key", "imageUrl"}

IsTruthy(field, value) ==
    IF field = "publicationYear" THEN TruthyNum(value)
    ELSE IF field = "description" THEN value # None
    ELSE TruthyStr(value)

\* C4 as claimed: a stored field that is non-null still holds its value after any
\* batch carrying an entity of the same (type, label), whatever that entity's
\* field is.
C4_NonNullFieldKept ==
    \A data \in MergeData :
        LET r == AddOutcome(data, None, TRUE)
        IN  \A i \in DOMAIN nodes : \A f \in FieldNames :
                nodes[i][f] # None => NodeAt(r.nodes, nodes[i].id)[f] = nodes[i][f]

\* C4 as amended: a stored description, and a stored publicationYear, series,
\* api_key or imageUrl that is truthy (not null, not 0, not the empty string),
\* still holds its value after any such batch.
C4_TruthyFieldKept ==
    \A data \in MergeData :
        LET r == AddOutcome(data, None, TRUE)
        IN  \A i \in DOMAIN nodes : \A f \in FieldNames :
                IsTruthy(f, nodes[i][f]) => NodeAt(r.nodes, nodes[i].id)[f] = nodes[i][f]

\* C4 witness: every field of the stored node is set, and a batch whose entity
\* carries another value for each of them leaves all five as they were.
C4_Witness ==
    \E i \in DOMAIN nodes :
        /\ \A f \in FieldNames : IsTruthy(f, nodes[i][f])
        /\ \E data \in MergeData :
              LET incoming == data[1].nodes[1][1]
                  r == AddOutcome(data, None, TRUE)
              IN  /\ \A f \in FieldNames :
                        IsTruthy(f, incoming[f]) /\ incoming[f] # nodes[i][f]
                  /\ \A f \in FieldNames : r.nodes[i][f] = nodes[i][f]

----------------------------------------------------------------------------
(* Foreground queries.  A query in flight is a record of queries: its      *)
(* kind, the upstream call it awaits (stage "library": searchLiterary,     *)
(* "llm": queryLlm) and the queryTimestamp captured at dispatch.  The      *)
(* visualization mode is 'graph' throughout.                               *)

MaxQueries == 2

ConnectingFromCaptions == {"Connecting from \"A\". Select an ending node."}

\* The caption after resetConnectionState.
ResetCaption(c) == IF c # None /\ c[1] \in ConnectingFromCaptions THEN None ELSE c

RemoveAt(seq, i) == SubSeq(seq, 1, i - 1) \o SubSeq(seq, i + 1, Len(seq))

toggleGroundedSearch ==
    /\ isGroundedSearchActive' = ~isGroundedSearchActive
    /\ UNCHANGED <<nodes, edges, caption, latestQueryTimestamp, isFetching, selectedNode,
                   expandingNodeId, connectionVars, queries, enrichTasks, now, utilVars>>

\* sendQuery up to its first await, in graph mode; in bookgrid mode it only
\* calls seedGrid, which is the action seedGrid below.
sendQuery ==
    /\ visualizationMode = "graph"
    /\ Len(queries) < MaxQueries
    /\ connectionMode' = "inactive"
    /\ connectionStartNode' = None
    /\ connectionEndNode' = None
    /\ connectionPath' = <<>>
    /\ isFetching' = TRUE
    /\ selectedNode' = None
    /\ caption' = IF isGroundedSearchActive THEN Some("Searching the web for \"q\"...")
                                            ELSE Some("Searching for \"q\"...")
    /\ latestQueryTimestamp' = Some(now)
    /\ queries' = Append(queries,
                         [kind |-> "sendQuery",
                          stage |-> IF isGroundedSearchActive THEN "llm" ELSE "library",
                          queryTimestamp |-> now])
    /\ UNCHANGED <<nodes, edges, expandingNodeId, isGroundedSearchActive, enrichTasks, now, utilVars>>

\* searchLiterary settles for the query at index q with apiData (None: null).
searchLiterarySettles(q, apiData) ==
    /\ q \in DOMAIN queries
    /\ queries[q].stage = "library"
    /\ IF apiData # None /\ Len(apiData[1].nodes[1]) > 0
       THEN \E r \in {AddOutcome(apiData, Some(queries[q].queryTimestamp), FALSE)} :
               /\ WithinBounds(r)
               /\ nodes' = r.nodes
               /\ edges' = r.edges
               /\ enrichTasks' = r.enrichTasks
               /\ caption' = apiData[1].commentary
               /\ selectedNode' = IF r.primaryNodeId # None THEN r.primaryNodeId
                                                            ELSE selectedNode
               /\ isFetching' = FALSE
               /\ queries' = RemoveAt(queries, q)
       ELSE /\ caption' = Some("No results from public libraries, asking AI...")
            /\ queries' = [queries EXCEPT ![q].stage = "llm"]
            /\ UNCHANGED <<nodes, edges, enrichTasks, selectedNode, isFetching>>
    /\ UNCHANGED <<latestQueryTimestamp, expandingNodeId, isGroundedSearchActive,
                   connectionVars, now, utilVars>>

\* nodesByLabel[label]?.id in findConnection: the last node carrying the label.
IdByLabelUnmatched(ns, label, index) ==
    IF index = 0 THEN None ELSE Some(ns[index].id)

RECURSIVE IdByLabel(_, _, _)
IdByLabel(ns, label, index) ==
    IF index = 0 THEN None
    ELSE IF ns[index].label = label THEN Some(ns[index].id)
    ELSE IdByLabel(ns, label, index - 1)

\* resJ.path.map(label => nodesByLabel[label]?.id).filter(Boolean)
RECURSIVE PathIds(_, _, _)
PathIds(ns, path, index) ==
    IF index > Len(path) THEN <<>>
    ELSE IdByLabel(ns, path[index], Len(ns)) \o PathIds(ns, path, index + 1)

\* queryLlm settles for the query at index q.  outcome is None when the request
\* rejects or parseLlmJson throws, else Some([data, path]): the parsed resJ as
\* addNewDataToGraph reads it, and resJ.path.  The awaits on addNewDataToGraph
\* and the try / catch / finally that follow are part of the step.
queryLlmSettles(q, outcome) ==
    /\ q \in DOMAIN queries
    /\ queries[q].stage = "llm"
    /\ outcome # None /\ queries[q].kind # "findConnection" => outcome[1].path = None
    /\ LET kind == queries[q].kind
           r == IF outcome = None
                THEN AddOutcome(None, None, FALSE)
                ELSE AddOutcome(outcome[1].data, Some(queries[q].queryTimestamp), FALSE)
           merged == outcome # None /\ r.status # "threw"
           hasPath == /\ merged
                      /\ outcome[1].data # None
                      /\ outcome[1].path # None
           done == IF kind = "findConnection" THEN hasPath ELSE merged
       IN  /\ WithinBounds(r)
           /\ nodes' = IF merged THEN r.nodes ELSE nodes
           /\ edges' = IF merged THEN r.edges ELSE edges
           /\ enrichTasks' = IF merged THEN r.enrichTasks ELSE enrichTasks
           /\ caption' =
                 IF ~done
                 THEN CASE kind = "sendQuery" ->
                               Some("Sorry, I had trouble with that request.")
                        [] kind = "expandNode" ->
                               Some("Sorry, I had trouble expanding on that.")
                        [] kind = "findConnection" ->
                               Some("Sorry, I could not find a connection.")
                 ELSE IF kind = "findConnection" THEN outcome[1].data[1].commentary
                 ELSE r.caption
           /\ selectedNode' =
                 IF kind = "sendQuery" /\ merged /\ r.primaryNodeId # None
                 THEN r.primaryNodeId ELSE selectedNode
           /\ expandingNodeId' = IF kind = "expandNode" THEN None ELSE expandingNodeId
           /\ connectionPath' =
                 IF kind = "findConnection" /\ hasPath
                 THEN PathIds(r.nodes, outcome[1].path[1], 1) ELSE connectionPath
           /\ connectionMode' = IF kind = "findConnection" THEN "inactive"
                                                           ELSE connectionMode
           /\ connectionStartNode' = IF kind = "findConnection" THEN None
                                                                ELSE connectionStartNode
           /\ connectionEndNode' = IF kind = "findConnection" THEN None
                                                              ELSE connectionEndNode
           /\ isFetching' = FALSE
           /\ queries' = RemoveAt(queries, q)
    /\ UNCHANGED <<latestQueryTimestamp, isGroundedSearchActive, now, utilVars>>

\* expandNode(nodeId) up to its first await, as setSelectedNode calls it: the
\* fields it writes.
expandNode(nodeId) ==
    IF ~NodeExists(nodes, nodeId)
    THEN UNCHANGED <<isFetching, expandingNodeId, caption, latestQueryTimestamp, queries>>
    ELSE /\ Len(queries) < MaxQueries
         /\ isFetching' = TRUE
         /\ expandingNodeId' = Some(nodeId)
         /\ caption' = Some("Expanding on \"" \o NodeAt(nodes, nodeId).label \o "\"...")
         /\ latestQueryTimestamp' = Some(now)
         /\ queries' = Append(queries, [kind |-> "expandNode", stage |-> "llm",
                                        queryTimestamp |-> now])

\* findConnection(startNodeId, endNodeId) up to its first await, as
\* setSelectedNode calls it after writing connectionEndNode = endNodeId.
findConnection(startNodeId, endNodeId) ==
    IF endNodeId = None \/ ~NodeExists(nodes, startNodeId)
                        \/ ~NodeExists(nodes, endNodeId[1])
    THEN /\ connectionMode' = "inactive"
         /\ connectionStartNode' = None
         /\ connectionEndNode' = None
         /\ connectionPath' = <<>>
         /\ caption' = ResetCaption(caption)
         /\ UNCHANGED <<isFetching, selectedNode, latestQueryTimestamp, queries>>
    ELSE /\ Len(queries) < MaxQueries
         /\ connectionEndNode' = endNodeId
         /\ isFetching' = TRUE
         /\ caption' = Some("Thinking of a connection between \""
                            \o NodeAt(nodes, startNodeId).label \o "\" and \""
                            \o NodeAt(nodes, endNodeId[1]).label \o "\"...")
         /\ selectedNode' = None
         /\ latestQueryTimestamp' = Some(now)
         /\ queries' = Append(queries, [kind |-> "findConnection", stage |-> "llm",
                                        queryTimestamp |-> now])
         /\ UNCHANGED <<connectionMode, connectionStartNode, connectionPath>>

\* setSelectedNode(nodeId), nodeId None for null.  The early return while another
\* fetch is running changes nothing.  Nodes are clicked in the graph view, where
\* expandNode does not return early and findConnection's write of
\* visualizationMode = 'graph' changes nothing.
setSelectedNode(nodeId) ==
    /\ visualizationMode = "graph"
    /\ ~(isFetching /\ expandingNodeId # nodeId)
    /\ CASE connectionMode = "selectingStart" ->
              /\ connectionStartNode' = nodeId
              /\ connectionMode' = "selectingEnd"
              /\ selectedNode' = nodeId
              /\ UNCHANGED <<connectionEndNode, connectionPath, isFetching,
                             expandingNodeId, caption, latestQueryTimestamp, queries>>
         [] connectionMode = "selectingEnd" ->
              /\ IF connectionStartNode # None /\ connectionStartNode # nodeId
                 THEN findConnection(connectionStartNode[1], nodeId)
                 ELSE UNCHANGED <<connectionVars, isFetching, selectedNode, caption,
                                  latestQueryTimestamp, queries>>
              /\ UNCHANGED expandingNodeId
         [] connectionMode = "inactive" ->
              /\ IF nodeId = selectedNode
                 THEN /\ selectedNode' = None
                      /\ UNCHANGED <<isFetching, expandingNodeId, caption,
                                     latestQueryTimestamp, queries>>
                 ELSE /\ selectedNode' = nodeId
                      /\ IF nodeId # None
                         THEN expandNode(nodeId[1])
                         ELSE UNCHANGED <<isFetching, expandingNodeId, caption,
                                          latestQueryTimestamp, queries>>
              /\ UNCHANGED connectionVars
    /\ UNCHANGED <<nodes, edges, isGroundedSearchActive, enrichTasks, now, utilVars>>

toggleConnectionModeKeepingPath ==
    /\ connectionMode' = IF connectionMode = "inactive" THEN "selectingStart" ELSE "inactive"
    /\ connectionStartNode' = IF connectionMode = "inactive" THEN connectionStartNode ELSE None
    /\ connectionEndNode' = IF connectionMode = "inactive" THEN connectionEndNode ELSE None
    /\ caption' = IF connectionMode = "inactive" THEN caption ELSE None
    /\ selectedNode' = None
    /\ UNCHANGED <<connectionPath, nodes, edges, latestQueryTimestamp, isFetching,
                   expandingNodeId, isGroundedSearchActive, queries, enrichTasks, now,
                   utilVars>>

toggleConnectionMode ==
    /\ IF connectionMode = "inactive"
       THEN /\ connectionMode' = "selectingStart"
            /\ connectionPath' = <<>>
            /\ UNCHANGED <<connectionStartNode, connectionEndNode, caption>>
       ELSE /\ connectionMode' = "inactive"
            /\ connectionStartNode' = None
            /\ connectionEndNode' = None
            /\ connectionPath' = <<>>
            /\ caption' = None
    /\ selectedNode' = None
    /\ UNCHANGED <<nodes, edges, latestQueryTimestamp, isFetching, expandingNodeId,
                   isGroundedSearchActive, queries, enrichTasks, now, utilVars>>

----------------------------------------------------------------------------
(* The store under foreground queries: searches, clicks on nodes, the path *)
(* finder, resets, enrichment and the passing of time.                     *)

\* Entities as the bibliographic source returns them, with their external key
\* and cover: the enrichment that a merge of them starts finds nothing to fetch.
Known ==
    [Bare EXCEPT !.api_key = Some("/works/OL1W"),
                 !.imageUrl = Some("https://covers.openlibrary.org/b/id/1-L.jpg")]

\* What searchLiterary returns: null, or well-formed data with entities.
LibraryData ==
    {None,
     Batch(<<Entity("book", "A", Known)>>, Some(<<>>)),
     Batch(<<Entity("book", "A", Known), Entity("author", "B", Known)>>,
           Some(<<[source |-> "B", target |-> "A"]>>))}

\* What the generative client's answer parses to, and its path.
LlmOutcomes ==
    {None} \cup
    {Some([data |-> d, path |-> p]) :
        d \in {None,
               Batch(<<Entity("author", "B", Known)>>, Some(<<>>)),
               Batch(<<Entity("author", "B", Known), Entity("book", "A", Known)>>,
                     Some(<<[source |-> "A", target |-> "B"]>>)),
               Batch(<<Entity("book", "A", Known)>>, None)},
        p \in {None, Some(<<"A", "B">>), Some(<<"a", "b">>)}}

ClickTargets == {None} \cup {Some(id) : id \in NodeIds(nodes)}

NextQuery ==
    \/ toggleGroundedSearch
    \/ sendQuery
    \/ \E q \in 1..MaxQueries, apiData \in LibraryData : searchLiterarySettles(q, apiData)
    \/ \E q \in 1..MaxQueries, outcome \in LlmOutcomes : queryLlmSettles(q, outcome)
    \/ \E nodeId \in ClickTargets : setSelectedNode(nodeId)
    \/ toggleConnectionMode
    \/ clearQuery
    \/ Tick

SpecQuery == Init /\ [][NextQuery]_vars

\* C5: when a foreground query resolves (leaves queries) after a newer one was
\* dispatched, so that latestQueryTimestamp is later than the queryTimestamp it
\* captured, its result is discarded: the step changes neither nodes nor edges.
C5_StaleResultDiscarded ==
    [][\A q \in DOMAIN queries :
           /\ queries' = RemoveAt(queries, q)
           /\ latestQueryTimestamp # None
           /\ latestQueryTimestamp[1] > queries[q].queryTimestamp
           => nodes' = nodes /\ edges' = edges]_vars

----------------------------------------------------------------------------
(* LRUCache, constructed with max = CacheMax and ttl = CacheTtl.  The Map  *)
(* cache is the sequence of its entries in insertion order; timestamps is  *)
(* a function on the stored keys.  Keys are numbered.                      *)

CacheMax == 2
CacheTtl == 1
MaxCacheTime == 3

CacheKeys == 1..(CacheMax + 1)
CacheValues == {"x", "y"}

CacheHasKey(c, key) == \E i \in DOMAIN c : c[i].key = key
CacheKeysOf(c) == {c[i].key : i \in DOMAIN c}
\* The position of key in the Map.
CacheIndexOf(c, key) == CHOOSE i \in DOMAIN c : c[i].key = key
MapDelete(c, key) == SelectSeq(c, LAMBDA e : e.key # key)
MapSet(c, key, value) ==
    IF CacheHasKey(c, key)
    THEN [i \in DOMAIN c |-> IF c[i].key = key THEN [key |-> key, value |-> value]
                                                ELSE c[i]]
    ELSE Append(c, [key |-> key, value |-> value])
FcnDelete(f, key) == [k \in DOMAIN f \ {key} |-> f[k]]
FcnSet(f, key, v) == [k \in DOMAIN f \cup {key} |-> IF k = key THEN v ELSE f[k]]

\* timestamp && Date.now() - timestamp > this.ttl
CacheExpired(ts, key, t) == ts[key] # 0 /\ t - ts[key] > CacheTtl

\* get(key) that leaves a hit where it is in the Map.
CacheGetInPlace(c, ts, key, t) ==
    IF ~CacheHasKey(c, key)
    THEN [result |-> None, cache |-> c, timestamps |-> ts]
    ELSE IF CacheExpired(ts, key, t)
    THEN [result |-> None, cache |-> MapDelete(c, key), timestamps |-> FcnDelete(ts, key)]
    ELSE [result |-> Some(c[CacheIndexOf(c, key)].value), cache |-> c,
          timestamps |-> FcnSet(ts, key, t)]

\* get(key) at time t: what it returns (None: undefined) and what it leaves.
CacheGet(c, ts, key, t) ==
    IF ~CacheHasKey(c, key)
    THEN [result |-> None, cache |-> c, timestamps |-> ts]
    ELSE IF CacheExpired(ts, key, t)
    THEN [result |-> None, cache |-> MapDelete(c, key), timestamps |-> FcnDelete(ts, key)]
    ELSE LET value == c[CacheIndexOf(c, key)].value
         IN  [result |-> Some(value),
              cache |-> MapSet(MapDelete(c, key), key, value),
              timestamps |-> FcnSet(ts, key, t)]

\* A set that never evicts.
CacheSetKeepingAll(c, ts, key, value, t) ==
    [cache |-> MapSet(MapDelete(c, key), key, value), timestamps |-> FcnSet(ts, key, t)]

\* set(key, value) at time t.
CacheSet(c, ts, key, value, t) ==
    LET evict == ~CacheHasKey(c, key) /\ Len(c) >= CacheMax /\ Len(c) > 0
        c1 == IF CacheHasKey(c, key) THEN MapDelete(c, key)
              ELSE IF evict THEN MapDelete(c, c[1].key)
              ELSE c
        ts1 == IF evict THEN FcnDelete(ts, c[1].key) ELSE ts
    IN  [cache |-> MapSet(c1, key, value), timestamps |-> FcnSet(ts1, key, t)]

\* has(key) at time t.
CacheHas(c, ts, key, t) ==
    IF ~CacheHasKey(c, key)
    THEN [result |-> FALSE, cache |-> c, timestamps |-> ts]
    ELSE IF CacheExpired(ts, key, t)
    THEN [result |-> FALSE, cache |-> MapDelete(c, key), timestamps |-> FcnDelete(ts, key)]
    ELSE [result |-> TRUE, cache |-> c, timestamps |-> ts]

\* cleanExpired() at time t.
CleanExpired(c, ts, t) ==
    LET expired == {k \in DOMAIN ts : t - ts[k] > CacheTtl}
    IN  [cache |-> SelectSeq(c, LAMBDA e : e.key \notin expired),
         timestamps |-> [k \in DOMAIN ts \ expired |-> ts[k]]]

Touch(order, key) == Append(SelectSeq(order, LAMBDA k : k # key), key)

graphVars == <<storeVars, connectionVars, queries, enrichTasks>>

LRUCache_get(key) ==
    /\ \E o \in {CacheGet(cache, cacheTimestamps, key, now)} :
          /\ cache' = o.cache
          /\ cacheTimestamps' = o.timestamps
    /\ touchOrder' = Touch(touchOrder, key)
    /\ UNCHANGED <<insertedAt, graphVars, limiterVars, extVars, now>>

LRUCache_set(key, value) ==
    /\ \E o \in {CacheSet(cache, cacheTimestamps, key, value, now)} :
          /\ cache' = o.cache
          /\ cacheTimestamps' = o.timestamps
    /\ touchOrder' = Touch(touchOrder, key)
    /\ insertedAt' = FcnSet(insertedAt, key, now)
    /\ UNCHANGED <<graphVars, limiterVars, extVars, now>>

LRUCache_has(key) ==
    /\ \E o \in {CacheHas(cache, cacheTimestamps, key, now)} :
          /\ cache' = o.cache
          /\ cacheTimestamps' = o.timestamps
    /\ UNCHANGED <<touchOrder, insertedAt, graphVars, limiterVars, extVars, now>>

LRUCache_delete(key) ==
    /\ cache' = MapDelete(cache, key)
    /\ cacheTimestamps' = FcnDelete(cacheTimestamps, key)
    /\ UNCHANGED <<touchOrder, insertedAt, graphVars, limiterVars, extVars, now>>

LRUCache_clear ==
    /\ cache' = <<>>
    /\ cacheTimestamps' = <<>>
    /\ UNCHANGED <<touchOrder, insertedAt, graphVars, limiterVars, extVars, now>>

\* The size getter.
LRUCache_size ==
    /\ \E o \in {CleanExpired(cache, cacheTimestamps, now)} :
          /\ cache' = o.cache
          /\ cacheTimestamps' = o.timestamps
    /\ UNCHANGED <<touchOrder, insertedAt, graphVars, limiterVars, extVars, now>>

CacheTick ==
    /\ now < MaxCacheTime
    /\ now' = now + 1
    /\ UNCHANGED <<graphVars, utilVars>>

NextCache ==
    \/ \E key \in CacheKeys : LRUCache_get(key)
    \/ \E key \in CacheKeys, value \in CacheValues : LRUCache_set(key, value)
    \/ \E key \in CacheKeys : LRUCache_has(key)
    \/ \E key \in CacheKeys : LRUCache_delete(key)
    \/ LRUCache_clear
    \/ LRUCache_size
    \/ CacheTick

SpecCache == Init /\ [][NextCache]_vars

AllUnexpired == \A key \in CacheKeysOf(cache) : ~CacheExpired(cacheTimestamps, key, now)

\* Of the stored keys, the one whose last set or get lies furthest back.
LeastRecentlyTouched ==
    SelectSeq(touchOrder, LAMBDA k : k \in CacheKeysOf(cache))[1]

\* C8: when the cache holds CacheMax unexpired keys, set() of a new key removes
\* exactly the stored key least recently touched by set or get, and get() of every
\* other stored key still returns its value; set() of a stored key removes no key.
C8_EvictsLeastRecentlyTouched ==
    /\ Len(cache) = CacheMax /\ AllUnexpired =>
          \A key \in CacheKeys \ CacheKeysOf(cache), value \in CacheValues :
              LET o == CacheSet(cache, cacheTimestamps, key, value, now)
              IN  /\ CacheKeysOf(o.cache) =
                        (CacheKeysOf(cache) \ {LeastRecentlyTouched}) \cup {key}
                  /\ Len(o.cache) = Len(cache)
                  /\ \A other \in CacheKeysOf(cache) \ {LeastRecentlyTouched} :
                        CacheGet(o.cache, o.timestamps, other, now).result =
                            Some(cache[CacheIndexOf(cache, other)].value)
    /\ \A key \in CacheKeysOf(cache), value \in CacheValues :
          CacheKeysOf(CacheSet(cache, cacheTimestamps, key, value, now).cache) =
              CacheKeysOf(cache)

\* C8 witness: the cache is full of unexpired keys and the least recently touched
\* key is not the one set first, because that one was read since.
C8_Witness ==
    /\ Len(cache) = CacheMax
    /\ AllUnexpired
    /\ \E other \in CacheKeysOf(cache) :
          insertedAt[LeastRecentlyTouched] > insertedAt[other]
    /\ \E key \in CacheKeys \ CacheKeysOf(cache) :
          ~CacheHasKey(CacheSet(cache, cacheTimestamps, key, "x", now).cache,
                       LeastRecentlyTouched)

\* C9: get(key) more than CacheTtl after the last set(key), whatever other
\* operations came in between, returns undefined and leaves the key out of the
\* cache.
C9_ExpiresAfterInsertion ==
    \A key \in DOMAIN insertedAt :
        now - insertedAt[key] > CacheTtl =>
            LET o == CacheGet(cache, cacheTimestamps, key, now)
            IN  o.result = None /\ ~CacheHasKey(o.cache, key)

----------------------------------------------------------------------------
(* RateLimiter, constructed with max = LimiterMax and window =             *)
(* LimiterWindow (milliseconds).  The clock advances in steps of           *)
(* LimiterStep milliseconds.                                               *)

LimiterMax == 2
LimiterWindow == 2500
LimiterStep == 500
MaxLimiterTime == 4001
MsPerSecond == 1000

\* Rounds down where the code rounds up.
Floor(x, d) == x \div d

Ceil(x, d) == -((-x) \div d)

\* timestamps.filter(timestamp => now - timestamp <= window)
InWindowInclusive(ts, t) == SelectSeq(ts, LAMBDA timestamp : t - timestamp <= LimiterWindow)

\* timestamps.filter(timestamp => now - timestamp < window)
InWindow(ts, t) == SelectSeq(ts, LAMBDA timestamp : t - timestamp < LimiterWindow)

\* check() at time t: what it returns and the timestamps it leaves.
LimiterCheck(ts, t) ==
    LET kept == InWindow(ts, t)
    IN  IF Len(kept) >= LimiterMax
        THEN [allowed |-> FALSE,
              retryAfter |-> Some(Ceil(LimiterWindow - (t - kept[1]), MsPerSecond)),
              timestamps |-> kept]
        ELSE [allowed |-> TRUE, retryAfter |-> None, timestamps |-> Append(kept, t)]

\* A read that forgets the recorded admissions.
LimiterRemainingForgetting(ts, t) == [result |-> LimiterMax, timestamps |-> <<>>]

\* The remaining getter at time t.
LimiterRemaining(ts, t) ==
    LET kept == InWindow(ts, t)
    IN  [result |-> IF LimiterMax - Len(kept) > 0 THEN LimiterMax - Len(kept) ELSE 0,
         timestamps |-> kept]

RateLimiter_check ==
    /\ \E o \in {LimiterCheck(limiterTimestamps, now)} :
          /\ limiterTimestamps' = o.timestamps
          /\ admissions' = IF o.allowed THEN Append(admissions, now) ELSE admissions
          /\ wasRejected' = (wasRejected \/ ~o.allowed)
    /\ UNCHANGED <<graphVars, cacheVars, extVars, now>>

RateLimiter_reset ==
    /\ limiterTimestamps' = <<>>
    /\ admissions' = <<>>
    /\ wasRejected' = FALSE
    /\ UNCHANGED <<graphVars, cacheVars, extVars, now>>

RateLimiter_remaining ==
    /\ limiterTimestamps' = LimiterRemaining(limiterTimestamps, now).timestamps
    /\ UNCHANGED <<admissions, wasRejected, graphVars, cacheVars, extVars, now>>

LimiterTick ==
    /\ now + LimiterStep <= MaxLimiterTime
    /\ now' = now + LimiterStep
    /\ UNCHANGED <<graphVars, utilVars>>

NextLimiter ==
    \/ RateLimiter_check
    \/ RateLimiter_reset
    \/ RateLimiter_remaining
    \/ LimiterTick

SpecLimiter == Init /\ [][NextLimiter]_vars

\* The admissions that fall in the window ending now.
AdmittedInWindow == {i \in DOMAIN admissions : now - admissions[i] < LimiterWindow}

\* C10: once LimiterMax checks were admitted within the current window, check() is
\* rejected with retryAfter > 0; once LimiterWindow has elapsed since the oldest
\* of the last LimiterMax admissions, check() is admitted.
C10_RejectsThenAdmits ==
    LET o == LimiterCheck(limiterTimestamps, now)
    IN  /\ Cardinality(AdmittedInWindow) >= LimiterMax =>
              ~o.allowed /\ o.retryAfter # None /\ o.retryAfter[1] > 0
        /\ /\ Len(admissions) >= LimiterMax
           /\ now - admissions[Len(admissions) - LimiterMax + 1] >= LimiterWindow
           => o.allowed

\* C10 witness: LimiterMax admissions fell within one window, a check was
\* rejected, and the window has now elapsed since the oldest of them while a
\* later one is still inside it.
C10_Witness ==
    /\ wasRejected
    /\ Len(admissions) = LimiterMax
    /\ admissions[LimiterMax] - admissions[1] < LimiterWindow
    /\ now - admissions[1] >= LimiterWindow
    /\ now - admissions[LimiterMax] < LimiterWindow
    /\ LimiterCheck(limiterTimestamps, now).allowed

----------------------------------------------------------------------------
(* libraryApi.ts: throttledFetch, the spacing of the outbound calls.       *)

API_CALL_INTERVAL == 200

MaxThrottleCalls == 3
ThrottleStep == 50
MaxThrottleTime == 600

\* throttledFetch up to the fetch or, when the last call is too recent, up to
\* the setTimeout: the delay is computed once, from the timestamp read here.
throttledFetch ==
    /\ Len(fetchTimes) + Len(sleepers) < MaxThrottleCalls
    /\ LET timeSinceLastCall == now - lastApiCallTimestamp
       IN  IF timeSinceLastCall < API_CALL_INTERVAL
           THEN /\ sleepers' = Append(sleepers, now + (API_CALL_INTERVAL - timeSinceLastCall))
                /\ UNCHANGED <<lastApiCallTimestamp, fetchTimes>>
           ELSE /\ lastApiCallTimestamp' = now
                /\ fetchTimes' = Append(fetchTimes, now)
                /\ UNCHANGED sleepers
    /\ UNCHANGED <<graphVars, cacheVars, limiterVars, savedGraph, auxVars, retry, gridVars, now>>

\* The timer of the sleeper at index s fires (no sooner than its delay): the
\* invocation stamps lastApiCallTimestamp and fetches, without reading it again.
throttledFetchWakes(s) ==
    /\ s \in DOMAIN sleepers
    /\ sleepers[s] <= now
    /\ lastApiCallTimestamp' = now
    /\ fetchTimes' = Append(fetchTimes, now)
    /\ sleepers' = RemoveAt(sleepers, s)
    /\ UNCHANGED <<graphVars, cacheVars, limiterVars, savedGraph, auxVars, retry, gridVars, now>>

ThrottleTick ==
    /\ now < MaxThrottleTime
    /\ now' = now + ThrottleStep
    /\ UNCHANGED <<graphVars, cacheVars, limiterVars, extVars>>

\* Date.now() is far above API_CALL_INTERVAL when the module is loaded, so the
\* first call is never delayed by the initial lastApiCallTimestamp of 0.
InitThrottle == InitState /\ now = API_CALL_INTERVAL

NextThrottle ==
    \/ throttledFetch
    \/ \E s \in 1..MaxThrottleCalls : throttledFetchWakes(s)
    \/ ThrottleTick

SpecThrottle == InitThrottle /\ [][NextThrottle]_vars

\* C11: any two outbound calls issued through throttledFetch, whoever the
\* callers are and however they overlap, are issued at least API_CALL_INTERVAL
\* milliseconds apart.
C11_CallsSpacedApart ==
    \A i, j \in DOMAIN fetchTimes :
        i < j => fetchTimes[j] - fetchTimes[i] >= API_CALL_INTERVAL

----------------------------------------------------------------------------
(* llm.ts: retryWithBackoff.  Error messages are sequences of characters,  *)
(* so that toLowerCase and includes are computed.                          *)

MaxRetries == 3
InitialDelays == {1000, 2000, 4000}
MaxDelays == {3000, 10000}

UpperCase == <<"A", "B", "C", "D", "E", "F", "G", "H", "I", "J", "K", "L", "M", "N", "O", "P", "Q", "R", "S", "T", "U", "V", "W", "X", "Y", "Z">>
LowerCase == <<"a", "b", "c", "d", "e", "f", "g", "h", "i", "j", "k", "l", "m", "n", "o", "p", "q", "r", "s", "t", "u", "v", "w", "x", "y", "z">>

ToLowerChar(c) ==
    IF \E k \in DOMAIN UpperCase : UpperCase[k] = c
    THEN LowerCase[CHOOSE k \in DOMAIN UpperCase : UpperCase[k] = c]
    ELSE c

toLowerCase(str) == [k \in DOMAIN str |-> ToLowerChar(str[k])]

includes(str, searchString) ==
    \E k \in 1..(Len(str) - Len(searchString) + 1) :
        SubSeq(str, k, k + Len(searchString) - 1) = searchString

\* The values of error.toString() the operation may fail with.
ErrTooManyRequests == <<"4", "2", "9">>
ErrResourceExhausted == <<"R", "E", "S", "O", "U", "R", "C", "E", "_", "E", "X", "H", "A", "U", "S", "T", "E", "D">>
ErrRateLimit == <<"R", "a", "t", "e", " ", "l", "i", "m", "i", "t">>
ErrServer == <<"5", "0", "0">>
ErrInternal == <<"I", "N", "T", "E", "R", "N", "A", "L">>
ErrUnavailable == <<"5", "0", "3">>
ErrBadRequest == <<"4", "0", "0">>
ErrDenied == <<"D", "e", "n", "i", "e", "d">>

Errors == {ErrTooManyRequests, ErrResourceExhausted, ErrRateLimit, ErrServer,
           ErrInternal, ErrUnavailable, ErrBadRequest, ErrDenied}

isServerErrorAnyHundred(errorString) == includes(errorString, <<"0", "0">>)

isRateLimitError(errorString) ==
    \/ includes(errorString, <<"4", "2", "9">>)
    \/ includes(errorString, toLowerCase(ErrResourceExhausted))
    \/ includes(errorString, toLowerCase(ErrRateLimit))

isServerError(errorString) ==
    \/ includes(errorString, <<"5", "0", "0">>)
    \/ includes(errorString, toLowerCase(ErrInternal))

MayRetryAfterLast(i, retries) == i < retries

\* The attempt with index i is not the last one.
MayRetry(i, retries) == i < retries - 1

\* A doubling that is never capped.
Uncapped(a, b) == a

Min(a, b) == IF a < b THEN a ELSE b

\* The outcomes of one invocation of the operation.
Fulfilled(value) == [ok |-> TRUE, value |-> value]
Rejected(error) == [ok |-> FALSE, value |-> error]
OperationOutcomes == {Fulfilled(<<"v">>)} \cup {Rejected(e) : e \in Errors}

\* retryWithBackoff(fn, retries, initialDelay, maxDelay) up to the first call
\* of fn; with retries = 0 the loop body never runs and undefined is returned.
retryWithBackoff(retries, initialDelay, maxDelay) ==
    /\ retry = None
    /\ retry' = Some([retries |-> retries, initialDelay |-> initialDelay,
                      maxDelay |-> maxDelay, i |-> 0,
                      delay |-> initialDelay,
                      pc |-> IF 0 < retries THEN "calling" ELSE "returned",
                      result |-> None,
                      calls |-> <<>>,       \* history: the outcomes of fn, in order
                      waits |-> <<>>])      \* history: the delays slept, in order
    /\ UNCHANGED <<graphVars, cacheVars, limiterVars, savedGraph, auxVars, throttleVars, gridVars, now>>

\* fn() settles: a value is returned; an error is classified and either the
\* sleep before the next attempt begins or the error is rethrown.
operationSettles(outcome) ==
    /\ retry # None
    /\ retry[1].pc = "calling"
    /\ LET r == retry[1]
           errorString == toLowerCase(outcome.value)
           called == [r EXCEPT !.calls = Append(r.calls, outcome)]
       IN  retry' = Some(
             IF outcome.ok
             THEN [called EXCEPT !.pc = "returned", !.result = Some(outcome.value)]
             ELSE IF (isRateLimitError(errorString) \/ isServerError(errorString))
                        /\ MayRetry(r.i, r.retries)
                  THEN [called EXCEPT !.pc = "sleeping", !.waits = Append(r.waits, r.delay)]
                  ELSE [called EXCEPT !.pc = "threw", !.result = Some(outcome.value)])
    /\ UNCHANGED <<graphVars, cacheVars, limiterVars, savedGraph, auxVars, throttleVars, gridVars, now>>

\* The sleep ends: the delay doubles up to maxDelay and the next attempt begins.
sleepEnds ==
    /\ retry # None
    /\ retry[1].pc = "sleeping"
    /\ LET r == retry[1]
           i == r.i + 1
       IN  retry' = Some([r EXCEPT !.delay = Min(r.delay * 2, r.maxDelay),
                                   !.i = i,
                                   !.pc = IF i < r.retries THEN "calling" ELSE "returned"])
    /\ UNCHANGED <<graphVars, cacheVars, limiterVars, savedGraph, auxVars, throttleVars, gridVars, now>>

\* The caller has received the value or the error.
retrySettled ==
    /\ retry # None
    /\ retry[1].pc \in {"returned", "threw"}
    /\ retry' = None
    /\ UNCHANGED <<graphVars, cacheVars, limiterVars, savedGraph, auxVars, throttleVars, gridVars, now>>

NextRetry ==
    \/ \E retries \in 0..MaxRetries, initialDelay \in InitialDelays, maxDelay \in MaxDelays :
           retryWithBackoff(retries, initialDelay, maxDelay)
    \/ \E outcome \in OperationOutcomes : operationSettles(outcome)
    \/ sleepEnds
    \/ retrySettled

SpecRetry == Init /\ [][NextRetry]_vars

\* The failures the retry policy names as transient (rate limit, resource
\* exhaustion, status 500, internal error) and failures of no such class.
TransientErrors == {ErrTooManyRequests, ErrResourceExhausted, ErrRateLimit,
                    ErrServer, ErrInternal}
OtherErrors == {ErrBadRequest, ErrDenied}

\* C12: only failures classified as rate-limit / resource-exhaustion or
\* 5xx / internal-error are followed by a wait; when an invocation of the
\* operation fails with any other error, it is the last invocation, no wait
\* follows it and that same error is thrown to the caller.
C12_OtherErrorPropagates ==
    retry # None =>
        LET r == retry[1]
        IN  /\ \A k \in DOMAIN r.calls :
                   ~r.calls[k].ok /\ r.calls[k].value \in OtherErrors =>
                       /\ k = Len(r.calls)
                       /\ Len(r.waits) = k - 1
                       /\ r.pc = "threw"
                       /\ r.result = Some(r.calls[k].value)
            /\ \A k \in DOMAIN r.waits :
                   /\ k \in DOMAIN r.calls
                   /\ ~r.calls[k].ok
                   /\ r.calls[k].value \in TransientErrors

\* C12 witness: after one retried failure, the second invocation failed with an
\* error of no retried class, and the call threw with attempts left.
C12_Witness ==
    /\ retry # None
    /\ retry[1].retries = MaxRetries
    /\ Len(retry[1].calls) = 2
    /\ Len(retry[1].waits) = 1
    /\ retry[1].calls[2] = Rejected(ErrBadRequest)
    /\ retry[1].pc = "threw"

\* C13: retryWithBackoff(op, retries) with retries >= 1 invokes op at most
\* retries times and is running only while invocations are left; it returns the
\* value of the first successful invocation and invokes op no more; if all
\* `retries` invocations fail transiently it throws the error of the last one.
C13_BoundedInvocations ==
    retry # None /\ retry[1].retries >= 1 =>
        LET r == retry[1]
        IN  /\ Len(r.calls) <= r.retries
            /\ r.pc \in {"calling", "sleeping"} => Len(r.calls) < r.retries
            /\ \A k \in DOMAIN r.calls :
                   r.calls[k].ok => /\ k = Len(r.calls)
                                    /\ r.pc = "returned"
                                    /\ r.result = Some(r.calls[k].value)
            /\ /\ Len(r.calls) = r.retries
               /\ \A k \in DOMAIN r.calls :
                      ~r.calls[k].ok /\ r.calls[k].value \in TransientErrors
               => /\ r.pc = "threw"
                  /\ r.result = Some(r.calls[r.retries].value)

\* C13 witness: all MaxRetries invocations failed transiently, with two
\* different errors, and the error of the last one was thrown.
C13_Witness ==
    /\ retry # None
    /\ retry[1].retries = MaxRetries
    /\ Len(retry[1].calls) = MaxRetries
    /\ retry[1].calls[1] = Rejected(ErrServer)
    /\ retry[1].calls[MaxRetries] = Rejected(ErrRateLimit)
    /\ retry[1].pc = "threw"
    /\ retry[1].result = Some(ErrRateLimit)

----------------------------------------------------------------------------
(* The path finder under SpecQuery.                                        *)

\* The path query, alone in flight, with both endpoints chosen and still stored.
PathQueryAlone(q) ==
    /\ Len(queries) = 1
    /\ queries[q].kind = "findConnection"
    /\ connectionMode = "selectingEnd"
    /\ connectionStartNode # None /\ NodeExists(nodes, connectionStartNode[1])
    /\ connectionEndNode # None /\ NodeExists(nodes, connectionEndNode[1])

\* The path query succeeded: the answer was parsed, carries a path and merged.
PathQuerySucceeds(outcome) ==
    /\ outcome # None
    /\ outcome[1].data # None
    /\ outcome[1].path # None
    /\ AddOutcome(outcome[1].data, None, FALSE).status # "threw"

\* The clicks of the scenario: the first click chooses the start, the second,
\* on another stored node with nothing in flight, launches exactly one path query.
PathFinderClicks ==
    \A a, b \in NodeIds(nodes) :
        /\ connectionMode = "selectingStart" /\ setSelectedNode(Some(a))
           => connectionMode' = "selectingEnd" /\ connectionStartNode' = Some(a)
        /\ /\ connectionMode = "selectingEnd"
           /\ connectionStartNode = Some(a)
           /\ a # b
           /\ queries = <<>>
           /\ setSelectedNode(Some(b))
           => queries' = <<[kind |-> "findConnection", stage |-> "llm",
                            queryTimestamp |-> now]>>

\* C14 as stated: after toggle(), a click on A and a click on B # A, exactly one
\* path query is in flight, and when it succeeds the machine ends in inactive
\* with a non-empty connectionPath.
C14_SuccessYieldsPath ==
    [][/\ PathFinderClicks
       /\ \A q \in DOMAIN queries, outcome \in LlmOutcomes :
              /\ PathQueryAlone(q)
              /\ PathQuerySucceeds(outcome)
              /\ queryLlmSettles(q, outcome)
              => connectionMode' = "inactive" /\ connectionPath' # <<>>]_vars

\* C14, amended: ... when it succeeds the machine ends in inactive with
\* connectionPath holding ids of stored nodes whose labels the returned path
\* names, non-empty exactly when the path names the label of a stored node.
C14_SuccessYieldsResolvedPath ==
    [][/\ PathFinderClicks
       /\ \A q \in DOMAIN queries, outcome \in LlmOutcomes :
              /\ PathQueryAlone(q)
              /\ PathQuerySucceeds(outcome)
              /\ queryLlmSettles(q, outcome)
              => /\ connectionMode' = "inactive"
                 /\ connectionPath' # <<>> <=>
                        \E n \in DOMAIN nodes' : nodes'[n].label \in Range(outcome[1].path[1])
                 /\ \A k \in DOMAIN connectionPath' :
                        \E n \in DOMAIN nodes' :
                            /\ nodes'[n].id = connectionPath'[k]
                            /\ nodes'[n].label \in Range(outcome[1].path[1])]_vars

\* C14 witness: a path query has settled with both labels of its path resolved,
\* and nothing is in flight.
C14_Witness ==
    /\ connectionMode = "inactive"
    /\ Len(connectionPath) = 2
    /\ connectionPath[1] # connectionPath[2]
    /\ queries = <<>>
    /\ ~isFetching

\* C15: toggle() in selectingStart or selectingEnd, with or without a path query
\* in flight, sets connectionMode to inactive, connectionStartNode and
\* connectionEndNode to null and connectionPath to empty; toggle() in inactive
\* moves to selectingStart with connectionPath empty and selectedNode null.
C15_ToggleResets ==
    [][toggleConnectionMode =>
          /\ connectionMode \in {"selectingStart", "selectingEnd"} =>
                 /\ connectionMode' = "inactive"
                 /\ connectionStartNode' = None
                 /\ connectionEndNode' = None
                 /\ connectionPath' = <<>>
          /\ connectionMode = "inactive" =>
                 /\ connectionMode' = "selectingStart"
                 /\ connectionPath' = <<>>
                 /\ selectedNode' = None]_vars

\* C15 witness: toggle() acted in selectingEnd while the path query was in
\* flight (only toggle() leaves the caption null there).
C15_Witness ==
    /\ Len(queries) = 1
    /\ queries[1].kind = "findConnection"
    /\ isFetching
    /\ caption = None
    /\ connectionMode = "inactive"
    /\ connectionStartNode = None
    /\ connectionEndNode = None
    /\ connectionPath = <<>>

----------------------------------------------------------------------------
(* The recommendation wall: state.bookGrid.  The wall has GridSlots slots  *)
(* (100 in the source) with indexes from 0, and the seed goes to the slot  *)
(* SeedSlot (45 in the source).                                            *)

GridSlots == 3
SeedSlot == 1
MaxGridTasks == 2
MaxRecommendations == 2
MaxDismissed == 1

EmptySlot(index) == [index |-> index, status |-> "empty", bookData |-> None]

\* Array.from({ length: 100 }, (_, i) => ({ index: i, status: 'empty', bookData: null }))
EmptySlots == [k \in 1..GridSlots |-> EmptySlot(k - 1)]

\* state.bookGrid.slots[index] = slot
SetSlot(slots, index, slot) == [slots EXCEPT ![index + 1] = slot]

\* `${title} by ${author}`
BookIdentity(bookData) == bookData.title \o " by " \o bookData.author

\* The books findBookForGrid may return, whatever was asked for.
BookA == [title |-> "A", author |-> "B",
          coverUrl |-> Some("https://covers.openlibrary.org/b/id/1-L.jpg"),
          apiKey |-> Some("/works/OL1W")]
BookC == [title |-> "C", author |-> "Unknown Author", coverUrl |-> None,
          apiKey |-> Some("/works/OL2W")]
LibraryBooks == {None, Some(BookA), Some(BookC)}

\* initBookGrid, as a function of state.bookGrid.
InitBookGrid(bg) ==
    IF Len(bg.slots) > 0 THEN bg ELSE [bg EXCEPT !.slots = EmptySlots]

SlotIndexes(slots) == [k \in DOMAIN slots |-> slots[k].index]

\* populateGridSuggestions up to its first await, as a function of
\* state.bookGrid: the bookGrid it leaves, the invocation left awaiting queryLlm
\* (None when it has ended) and whether it threw.  Reading bookData.title of a
\* non-empty slot without bookData throws before the try block is entered.
PopulateGridSuggestions(bg) ==
    LET loading == [bg EXCEPT !.isLoading = TRUE]
        slots == bg.slots
        lockedBooks == SelectSeq(slots, LAMBDA sl : sl.status = "locked")
        existing == SelectSeq(slots, LAMBDA sl : sl.status # "empty")
        emptySlots == SelectSeq(slots, LAMBDA sl : sl.status = "empty")
    IN  IF \E k \in DOMAIN existing : existing[k].bookData = None
        THEN [bookGrid |-> loading, task |-> None, threw |-> TRUE]
        ELSE IF Len(lockedBooks) = 0 \/ Len(emptySlots) = 0
        THEN [bookGrid |-> [bg EXCEPT !.isLoading = FALSE], task |-> None, threw |-> FALSE]
        ELSE [bookGrid |-> loading,
              task |-> Some([kind |-> "populate", stage |-> "llm",
                             emptySlots |-> SlotIndexes(emptySlots),
                             recommendations |-> 0, i |-> 0]),
              threw |-> FALSE]

\* The tasks in flight once the task at index t (0: none) has ended and the
\* populateGridSuggestions outcome o has been started.
TasksAfter(t, o) ==
    (IF t = 0 THEN gridTasks ELSE RemoveAt(gridTasks, t)) \o o.task

toggleVisualizationMode ==
    /\ IF visualizationMode = "graph"
       THEN /\ visualizationMode' = "bookgrid"
            /\ selectedNode' = None
            /\ bookGrid' = InitBookGrid(bookGrid)
       ELSE /\ visualizationMode' = "graph"
            /\ UNCHANGED <<selectedNode, bookGrid>>
    /\ UNCHANGED <<nodes, edges, caption, latestQueryTimestamp, isFetching, expandingNodeId,
                   isGroundedSearchActive, connectionVars, queries, enrichTasks, now,
                   cacheVars, limiterVars, savedGraph, auxVars, throttleVars, retry, gridTasks>>

\* seedGrid(query) up to its await, as sendQuery calls it in bookgrid mode.
seedGrid ==
    /\ visualizationMode = "bookgrid"
    /\ Len(gridTasks) < MaxGridTasks
    /\ bookGrid' = [bookGrid EXCEPT !.isLoading = TRUE, !.slots = EmptySlots,
                                    !.dismissedBooks = <<>>]
    /\ gridTasks' = Append(gridTasks, [kind |-> "seed"])
    /\ UNCHANGED <<graphVars, cacheVars, limiterVars, savedGraph, auxVars, throttleVars, retry,
                   visualizationMode, now>>

\* findBookForGrid(query) settles for the seedGrid at index t (None: no match).
seedLookupSettles(t, bookData) ==
    /\ t \in DOMAIN gridTasks
    /\ gridTasks[t].kind = "seed"
    /\ IF bookData # None
       THEN \E o \in {PopulateGridSuggestions(
                        [bookGrid EXCEPT
                           !.slots = SetSlot(@, SeedSlot,
                                             [index |-> SeedSlot, status |-> "locked",
                                              bookData |-> bookData]),
                           !.isSeeded = TRUE])} :
                /\ bookGrid' = o.bookGrid
                /\ gridTasks' = TasksAfter(t, o)
       ELSE /\ bookGrid' = [bookGrid EXCEPT !.isLoading = FALSE]
            /\ gridTasks' = RemoveAt(gridTasks, t)
    /\ UNCHANGED <<graphVars, cacheVars, limiterVars, savedGraph, auxVars, throttleVars, retry,
                   visualizationMode, now>>

\* queryLlm settles for the populateGridSuggestions at index t.  count is None
\* when the request rejects or the answer does not parse, else the number of
\* recommendations; with none, the finally block ends the invocation.
populateLlmSettles(t, count) ==
    /\ t \in DOMAIN gridTasks
    /\ gridTasks[t].kind = "populate"
    /\ gridTasks[t].stage = "llm"
    /\ IF count # None /\ count[1] > 0
       THEN /\ gridTasks' = [gridTasks EXCEPT ![t].stage = "books",
                                              ![t].recommendations = count[1]]
            /\ UNCHANGED bookGrid
       ELSE /\ bookGrid' = [bookGrid EXCEPT !.isLoading = FALSE]
            /\ gridTasks' = RemoveAt(gridTasks, t)
    /\ UNCHANGED <<graphVars, cacheVars, limiterVars, savedGraph, auxVars, throttleVars, retry,
                   visualizationMode, now>>

\* await bookPromises[i] settles for the populateGridSuggestions at index t: the
\* book goes to the i-th slot that was empty when the invocation began, if the
\* wall still has a slot there; after the last one the finally block runs.
populateBookSettles(t, bookData) ==
    /\ t \in DOMAIN gridTasks
    /\ gridTasks[t].kind = "populate"
    /\ gridTasks[t].stage = "books"
    /\ LET task == gridTasks[t]
           i == task.i
           written ==
               IF /\ bookData # None
                  /\ i + 1 \in DOMAIN task.emptySlots
                  /\ task.emptySlots[i + 1] + 1 \in DOMAIN bookGrid.slots
               THEN [bookGrid EXCEPT
                       !.slots = SetSlot(@, task.emptySlots[i + 1],
                                         [index |-> task.emptySlots[i + 1],
                                          status |-> "suggested",
                                          bookData |-> bookData])]
               ELSE bookGrid
       IN  IF i + 1 < task.recommendations
           THEN /\ bookGrid' = written
                /\ gridTasks' = [gridTasks EXCEPT ![t].i = i + 1]
           ELSE /\ bookGrid' = [written EXCEPT !.isLoading = FALSE]
                /\ gridTasks' = RemoveAt(gridTasks, t)
    /\ UNCHANGED <<graphVars, cacheVars, limiterVars, savedGraph, auxVars, throttleVars, retry,
                   visualizationMode, now>>

\* lockGridSlot(index); on a wall without slots the write throws and nothing
\* changes.
lockGridSlot(index) ==
    /\ index + 1 \in DOMAIN bookGrid.slots
    /\ \E o \in {PopulateGridSuggestions(
                   [bookGrid EXCEPT !.slots[index + 1].status = "locked"])} :
           /\ Len(TasksAfter(0, o)) <= MaxGridTasks
           /\ bookGrid' = o.bookGrid
           /\ gridTasks' = TasksAfter(0, o)
    /\ UNCHANGED <<graphVars, cacheVars, limiterVars, savedGraph, auxVars, throttleVars, retry,
                   visualizationMode, now>>

\* dismissGridSlot(index); it returns at once on a slot without bookData.
dismissGridSlot(index) ==
    /\ index + 1 \in DOMAIN bookGrid.slots
    /\ bookGrid.slots[index + 1].bookData # None
    /\ Len(bookGrid.dismissedBooks) < MaxDismissed
    /\ \E o \in {PopulateGridSuggestions(
                   [bookGrid EXCEPT
                      !.dismissedBooks =
                          Append(@, BookIdentity(bookGrid.slots[index + 1].bookData[1])),
                      !.slots = SetSlot(@, index, EmptySlot(index))])} :
           /\ Len(TasksAfter(0, o)) <= MaxGridTasks
           /\ bookGrid' = o.bookGrid
           /\ gridTasks' = TasksAfter(0, o)
    /\ UNCHANGED <<graphVars, cacheVars, limiterVars, savedGraph, auxVars, throttleVars, retry,
                   visualizationMode, now>>

\* slot.bookData?.apiKey === node.api_key || slot.bookData?.title === node.label;
\* None stands for undefined on both sides of the first comparison.
IsAlreadyInGrid(slots, node) ==
    \E k \in DOMAIN slots :
        \/ (IF slots[k].bookData = None THEN None ELSE slots[k].bookData[1].apiKey)
              = node.api_key
        \/ slots[k].bookData # None /\ slots[k].bookData[1].title = node.label

\* edges.find(...): the first edge that joins nodeId to an author node.
ConnectedAuthorEdges(nodeId) ==
    SelectSeq(edges, LAMBDA edge :
        \/ /\ edge.source = nodeId
           /\ NodeExists(nodes, edge.target)
           /\ NodeAt(nodes, edge.target).type = "author"
        \/ /\ edge.target = nodeId
           /\ NodeExists(nodes, edge.source)
           /\ NodeAt(nodes, edge.source).type = "author")

AuthorName(nodeId) ==
    IF ConnectedAuthorEdges(nodeId) = <<>> THEN "Unknown Author"
    ELSE LET connectedAuthorEdge == ConnectedAuthorEdges(nodeId)[1]
             authorNodeId == IF connectedAuthorEdge.source = nodeId
                             THEN connectedAuthorEdge.target
                             ELSE connectedAuthorEdge.source
             label == NodeAt(nodes, authorNodeId).label
         IN  IF label = "" THEN "Unknown Author" ELSE label

FirstEmptySlot(slots) ==
    IF \E k \in DOMAIN slots : slots[k].status = "empty"
    THEN Some(CHOOSE k \in DOMAIN slots :
                  /\ slots[k].status = "empty"
                  /\ \A j \in 1..(k - 1) : slots[j].status # "empty")
    ELSE None

\* addBookToGrid(nodeId) for a stored book that is not on the wall yet; in the
\* other cases it returns without a change.
addBookToGrid(nodeId) ==
    /\ NodeExists(nodes, nodeId)
    /\ NodeAt(nodes, nodeId).type = "book"
    /\ ~IsAlreadyInGrid(bookGrid.slots, NodeAt(nodes, nodeId))
    /\ LET node == NodeAt(nodes, nodeId)
           bookData == Some([title |-> node.label, author |-> AuthorName(nodeId),
                             coverUrl |-> node.imageUrl, apiKey |-> node.api_key])
           bg == InitBookGrid(bookGrid)
           emptySlotIndex == FirstEmptySlot(bg.slots)
           slotFound == ~bg.isSeeded \/ emptySlotIndex # None
           placed ==
               IF ~bg.isSeeded
               THEN [bg EXCEPT !.slots = SetSlot(@, SeedSlot,
                                                 [index |-> SeedSlot, status |-> "locked",
                                                  bookData |-> bookData]),
                               !.isSeeded = TRUE]
               ELSE IF emptySlotIndex # None
               THEN [bg EXCEPT !.slots = SetSlot(@, emptySlotIndex[1] - 1,
                                                 [index |-> emptySlotIndex[1] - 1,
                                                  status |-> "locked",
                                                  bookData |-> bookData])]
               ELSE bg
       IN  IF slotFound
           THEN \E o \in {PopulateGridSuggestions(placed)} :
                    /\ Len(TasksAfter(0, o)) <= MaxGridTasks
                    /\ bookGrid' = o.bookGrid
                    /\ gridTasks' = TasksAfter(0, o)
           ELSE /\ bookGrid' = placed
                /\ UNCHANGED gridTasks
    /\ UNCHANGED <<graphVars, cacheVars, limiterVars, savedGraph, auxVars, throttleVars, retry,
                   visualizationMode, now>>

\* The graph the wall takes books from: a search result with a book and its author.
GridGraphData ==
    Batch(<<Entity("book", "A", Known), Entity("author", "B", Known)>>,
          Some(<<[source |-> "B", target |-> "A"]>>))

RecommendationCounts == {None} \cup {Some(n) : n \in 0..MaxRecommendations}

NextGrid ==
    \/ toggleVisualizationMode
    \/ seedGrid
    \/ \E t \in 1..MaxGridTasks, bookData \in LibraryBooks : seedLookupSettles(t, bookData)
    \/ \E t \in 1..MaxGridTasks, count \in RecommendationCounts : populateLlmSettles(t, count)
    \/ \E t \in 1..MaxGridTasks, bookData \in LibraryBooks : populateBookSettles(t, bookData)
    \/ \E index \in 0..(GridSlots - 1) : lockGridSlot(index)
    \/ \E index \in 0..(GridSlots - 1) : dismissGridSlot(index)
    \/ \E nodeId \in NodeIds(nodes) : addBookToGrid(nodeId)
    \/ addNewDataToGraph(GridGraphData, None, TRUE)

SpecGrid == Init /\ [][NextGrid]_vars

\* C16: a seed(query) whose bibliographic lookup finds no match, whatever the
\* wall was before (never seeded or already seeded), ends with isSeeded = false
\* and isLoading = false and starts no recommendation request.
C16_NoMatchLeavesUnseeded ==
    [][\A t \in DOMAIN gridTasks :
           seedLookupSettles(t, None) =>
               /\ ~bookGrid'.isSeeded
               /\ ~bookGrid'.isLoading
               /\ gridTasks' = RemoveAt(gridTasks, t)]_vars

\* C17: dismiss(index) on a non-empty slot clears the slot and records its
\* "title by author" in dismissedBooks, and while that identity is recorded no
\* populate() result, one in flight at the dismissal included, writes a book of
\* that identity into a slot.
C17_DismissedStaysOut ==
    [][/\ \A index \in 0..(GridSlots - 1) :
              dismissGridSlot(index) =>
                  /\ bookGrid'.slots[index + 1] = EmptySlot(index)
                  /\ BookIdentity(bookGrid.slots[index + 1].bookData[1])
                         \in Range(bookGrid'.dismissedBooks)
       /\ \A k \in DOMAIN bookGrid'.slots :
              /\ k \in DOMAIN bookGrid.slots
              /\ bookGrid'.slots[k] # bookGrid.slots[k]
              /\ bookGrid'.slots[k].status = "suggested"
              => BookIdentity(bookGrid'.slots[k].bookData[1])
                     \notin Range(bookGrid.dismissedBooks) \cap Range(bookGrid'.dismissedBooks)]_vars

\* C18: a (title, author) identity occupies at most one non-empty slot of the
\* wall.
C18_OneSlotPerIdentity ==
    \A i, j \in DOMAIN bookGrid.slots :
        /\ i # j
        /\ bookGrid.slots[i].bookData # None
        /\ bookGrid.slots[j].bookData # None
        => BookIdentity(bookGrid.slots[i].bookData[1])
               # BookIdentity(bookGrid.slots[j].bookData[1])

PopulatesInFlight(tasks) == {t \in DOMAIN tasks : tasks[t].kind = "populate"}

\* C20: when a populate() invocation has settled and no other populate is in
\* flight, isLoading is false: after the step that ends the last populate in
\* flight, and whenever nothing at all is in flight on the wall.
C20_LoadingCleared ==
    [][/\ /\ PopulatesInFlight(gridTasks) # {}
          /\ PopulatesInFlight(gridTasks') = {}
          => ~bookGrid'.isLoading
       /\ gridTasks' = <<>> => ~bookGrid'.isLoading]_vars

----------------------------------------------------------------------------
(* Background enrichment under Spec.                                       *)

NeedsEnrichment(ns, id) ==
    /\ NodeExists(ns, id)
    /\ NodeAt(ns, id).type \in {"book", "author"}
    /\ ~TruthyStr(NodeAt(ns, id).api_key) \/ ~TruthyStr(NodeAt(ns, id).imageUrl)

EnrichKeyStep(t) ==
    \E apiKey \in ApiKeys, frozen \in BOOLEAN : enrichKeySettles(t, apiKey, frozen)

EnrichImageStep(t) ==
    \E imageUrl \in ImageUrls : enrichImageSettles(t, imageUrl)

\* C19: whatever the key lookup or the image lookup for one id returns, the
\* enrichment goes on to the remaining step for that id (the image lookup of a
\* node without imageUrl) and stays running while a later id of its list still
\* lacks a key or an image: it never ends early.
C19_EnrichmentContinues ==
    [][\A t \in DOMAIN enrichTasks :
           /\ EnrichKeyStep(t) /\ ~TruthyStr(enrichTasks[t].cur.imageUrl)
              => /\ t \in DOMAIN enrichTasks'
                 /\ enrichTasks'[t].pc = "image"
                 /\ enrichTasks'[t].queue = enrichTasks[t].queue
           /\ EnrichKeyStep(t) \/ EnrichImageStep(t)
              => \A k \in 2..Len(enrichTasks[t].queue) :
                     NeedsEnrichment(nodes', enrichTasks[t].queue[k])
                         => t \in DOMAIN enrichTasks']_vars

----------------------------------------------------------------------------
(* addNewDataToGraph on unusable data, under Spec.                         *)

\* The entity list is missing, empty, or malformed (it holds an entity without
\* type and label).
EntityListUnusable(data) ==
    \/ data = None
    \/ data[1].nodes = None
    \/ Len(data[1].nodes[1]) = 0
    \/ \E k \in DOMAIN data[1].nodes[1] : data[1].nodes[1][k] = UntypedEntity

\* C21: addNewDataToGraph with a missing, malformed or empty entity list is a
\* no-op: it returns primaryNodeId = null and newNodeIds = [], leaves nodes,
\* edges, sizes and caption unchanged and starts no enrichment.
C21_UnusableListIsNoOp ==
    \A data \in GraphData, skipEnrichment \in BOOLEAN :
        EntityListUnusable(data) =>
            LET r == AddOutcome(data, None, skipEnrichment)
            IN  /\ r.primaryNodeId = None
                /\ r.newNodeIds = <<>>
                /\ r.nodes = nodes
                /\ r.edges = edges
                /\ r.caption = caption
                /\ r.enrichTasks = enrichTasks

----------------------------------------------------------------------------
(* Persistence: saving, loading and importing a graph (SettingsPanel).     *)

\* The text of a file whose JSON holds the fields nodes and edges (None: the
\* field is absent); a file that is not JSON is None.
GraphFile(ns, es) == Some([nodes |-> ns, edges |-> es])

\* JSON.parse, then the test of the two fields; a throw is caught and gives
\* null. Both branches that follow return the parsed nodes and edges.
importGraphFromJSON(jsonString) ==
    IF jsonString = None THEN None
    ELSE IF jsonString[1].nodes = None \/ jsonString[1].edges = None THEN None
    ELSE Some([nodes |-> jsonString[1].nodes[1], edges |-> jsonString[1].edges[1]])

\* saveGraphToStorage(nodes, edges): the item written when localStorage is
\* available.
PersistedGraphData(ns, es, timestamp) ==
    Some([nodes |-> Some(ns), edges |-> Some(es), timestamp |-> Some(timestamp)])

\* loadGraphFromStorage(): the parsed item, null when storage is unavailable,
\* the item is absent or a field of it is missing.
loadGraphFromStorage(available) ==
    IF ~available \/ savedGraph = None THEN None
    ELSE IF \/ savedGraph[1].nodes = None
            \/ savedGraph[1].edges = None
            \/ savedGraph[1].timestamp = None
    THEN None
    ELSE Some([nodes |-> savedGraph[1].nodes[1], edges |-> savedGraph[1].edges[1]])

handleManualSave(available) ==
    /\ savedGraph' = IF available THEN PersistedGraphData(nodes, edges, now) ELSE savedGraph
    /\ UNCHANGED <<graphVars, now, cacheVars, limiterVars, throttleVars, retry, gridVars, auxVars>>

\* The store takes the loaded nodes and edges as they are.
handleLoadFromStorage(available) ==
    /\ \E data \in {loadGraphFromStorage(available)} :
          IF data # None
          THEN /\ nodes' = data[1].nodes
               /\ edges' = data[1].edges
          ELSE UNCHANGED <<nodes, edges>>
    /\ UNCHANGED <<caption, latestQueryTimestamp, isFetching, selectedNode, expandingNodeId,
                   isGroundedSearchActive, connectionVars, queries, enrichTasks, now, utilVars>>

\* The confirmed removal of the saved item.
handleClearSaved(available) ==
    /\ savedGraph' = IF available THEN None ELSE savedGraph
    /\ UNCHANGED <<graphVars, now, cacheVars, limiterVars, throttleVars, retry, gridVars, auxVars>>

\* reader.onload of handleFileImport: the store takes the imported nodes and
\* edges as they are.
handleFileImport(content) ==
    /\ \E data \in {importGraphFromJSON(content)} :
          IF data # None
          THEN /\ nodes' = data[1].nodes
               /\ edges' = data[1].edges
          ELSE UNCHANGED <<nodes, edges>>
    /\ UNCHANGED <<caption, latestQueryTimestamp, isFetching, selectedNode, expandingNodeId,
                   isGroundedSearchActive, connectionVars, queries, enrichTasks, now, utilVars>>

\* A node of an exported graph, with the size the file gives it.
FileNode(type, label, size) ==
    [NewNode(Entity(type, label, Bare), NodeId(type, label), 1) EXCEPT !.size = size]

FileEdge(source, target) == [source |-> source, target |-> target]

\* Files: not JSON, JSON without nodes, an export of a store of two linked
\* nodes, and graph files written elsewhere: an edge to a node the file does not
\* hold, the same pair in both directions, and sizes that ignore the edge.
ImportFiles ==
    {None,
     GraphFile(None, Some(<<>>)),
     GraphFile(Some(<<FileNode("book", "A", SizeFor(1)), FileNode("author", "B", SizeFor(1))>>),
               Some(<<FileEdge("book:A", "author:B")>>)),
     GraphFile(Some(<<FileNode("book", "A", SizeFor(1))>>),
               Some(<<FileEdge("book:A", "author:B")>>)),
     GraphFile(Some(<<FileNode("book", "A", SizeFor(2)), FileNode("author", "B", SizeFor(2))>>),
               Some(<<FileEdge("book:A", "author:B"), FileEdge("author:B", "book:A")>>)),
     GraphFile(Some(<<FileNode("book", "A", SizeFor(0)), FileNode("author", "B", SizeFor(0))>>),
               Some(<<FileEdge("book:A", "author:B")>>))}

ImportEntities == {Entity("book", "A", Bare), Entity("author", "B", Bare)}

NextImport ==
    \/ \E data \in BatchesOf(ImportEntities) : addNewDataToGraph(data, None, TRUE)
    \/ clearQuery
    \/ \E available \in BOOLEAN : handleManualSave(available)
    \/ \E available \in BOOLEAN : handleLoadFromStorage(available)
    \/ \E available \in BOOLEAN : handleClearSaved(available)
    \/ \E content \in ImportFiles : handleFileImport(content)

SpecImport == Init /\ [][NextImport]_vars

\* A step that imports a graph from a file or loads the saved one.
ImportStep ==
    \/ \E content \in ImportFiles : handleFileImport(content)
    \/ \E available \in BOOLEAN : handleLoadFromStorage(available)

\* C22: an import from a JSON file or from saved storage leaves a store with no
\* dangling edge, no unordered pair stored twice and every size that of the
\* node's degree, as a batch that goes through the merge would.
C22_ImportKeepsStoreSound ==
    [][ImportStep =>
         /\ \A i \in DOMAIN edges' :
               edges'[i].source \in NodeIds(nodes') /\ edges'[i].target \in NodeIds(nodes')
         /\ \A i \in DOMAIN edges' : \A j \in DOMAIN edges' :
               i # j => EndpointsOf(edges'[i]) # EndpointsOf(edges'[j])
         /\ nodes' = RecomputeSizes(nodes', edges')]_vars

----------------------------------------------------------------------------
(* Rate limiting of the foreground queries, under SpecQuery.               *)

\* A step in which sendQuery or expandNode dispatches a request to an upstream
\* service.
IssuesUpstreamRequest ==
    /\ Len(queries') = Len(queries) + 1
    /\ queries'[Len(queries')].kind \in {"sendQuery", "expandNode"}

\* C23: a search or an expansion issues its upstream request only after check()
\* of its rate limiter admitted it, that is, in a step in which check() is
\* allowed and records the request's timestamp.
C23_RequestOnlyAfterAdmission ==
    [][IssuesUpstreamRequest =>
         /\ LimiterCheck(limiterTimestamps, now).allowed
         /\ limiterTimestamps' = LimiterCheck(limiterTimestamps, now).timestamps]_vars

----------------------------------------------------------------------------
(* Background enrichment next to batches that carry the enriched fields.   *)

\* A direct call of the exported backgroundEnrichNodes(nodeIds), up to its first
\* await: it reads the store and writes nothing.
backgroundEnrichNodes(nodeIds) ==
    /\ Len(enrichTasks \o BackgroundEnrichNodes(nodes, nodeIds)) <= MaxEnrichTasks
    /\ enrichTasks' = enrichTasks \o BackgroundEnrichNodes(nodes, nodeIds)
    /\ UNCHANGED <<storeVars, connectionVars, queries, now, utilVars>>

\* The fields of an entity that arrives with its external key and image.
Keyed ==
    [Bare EXCEPT !.api_key = Some("/works/OL2W"),
                 !.imageUrl = Some("https://covers.openlibrary.org/b/id/2-L.jpg")]

\* A book without and with the two fields, an author and a theme.
EnrichEntities ==
    {Entity("book", "A", Bare), Entity("book", "A", Keyed),
     Entity("author", "B", Bare), Entity("theme", "T", Bare)}

EnrichData == {Batch(<<e>>, Some(<<>>)) : e \in EnrichEntities}

NextEnrich ==
    \/ \E data \in EnrichData, skipEnrichment \in BOOLEAN :
           addNewDataToGraph(data, None, skipEnrichment)
    \/ \E nodeIds \in SeqsUpTo(NodeIds(nodes), 1) : backgroundEnrichNodes(nodeIds)
    \/ \E t \in 1..MaxEnrichTasks, apiKey \in ApiKeys, frozen \in BOOLEAN :
           enrichKeySettles(t, apiKey, frozen)
    \/ \E t \in 1..MaxEnrichTasks, imageUrl \in ImageUrls : enrichImageSettles(t, imageUrl)
    \/ clearQuery

SpecEnrich == Init /\ [][NextEnrich]_vars

\* A step in which a lookup of the background enrichment settles.
EnrichmentSettles ==
    \/ \E t \in 1..MaxEnrichTasks, apiKey \in ApiKeys, frozen \in BOOLEAN :
           enrichKeySettles(t, apiKey, frozen)
    \/ \E t \in 1..MaxEnrichTasks, imageUrl \in ImageUrls : enrichImageSettles(t, imageUrl)

\* C24: the enrichment stores api_key or imageUrl on a node only if the field is
\* still unset at the moment of the write: a field that holds a value when the
\* lookup settles, such as one a merge filled in meanwhile, keeps that value.
C24_WritesOnlyUnsetFields ==
    [][EnrichmentSettles =>
         \A i \in DOMAIN nodes :
             /\ nodes[i].api_key # None => nodes'[i].api_key = nodes[i].api_key
             /\ nodes[i].imageUrl # None => nodes'[i].imageUrl = nodes[i].imageUrl]_vars

\* The node needs nothing from the enrichment: it is a theme, or it holds both
\* its external key and its imageUrl.
FullyEnriched(node) ==
    \/ node.type = "theme"
    \/ TruthyStr(node.api_key) /\ TruthyStr(node.imageUrl)

\* C30: backgroundEnrichNodes on nodes that hold both api_key and imageUrl, and
\* on theme nodes, reaches no lookup of the bibliographic service: the invocation
\* ends at once, with no task left in flight and so no write to the store.
C30_EnrichedIsNoOp ==
    \A nodeIds \in SeqsUpTo(NodeIds(nodes), MaxNodes) :
        (\A k \in DOMAIN nodeIds : FullyEnriched(NodeAt(nodes, nodeIds[k]))) =>
            BackgroundEnrichNodes(nodes, nodeIds) = None

\* C30 witness: a book that an earlier enrichment gave its key and its image and
\* a theme are stored, nothing is in flight, and enriching both again ends at
\* once.
C30_Witness ==
    /\ enrichTasks = <<>>
    /\ \E i \in DOMAIN nodes, j \in DOMAIN nodes :
          /\ nodes[i].type = "book"
          /\ nodes[i].api_key = Some("/works/OL1W")
          /\ nodes[i].imageUrl = Some("https://covers.openlibrary.org/b/id/1-L.jpg")
          /\ nodes[j].type = "theme"
          /\ BackgroundEnrichNodes(nodes, <<nodes[i].id, nodes[j].id>>) = None

----------------------------------------------------------------------------
(* Overlapping populateGridSuggestions invocations, under SpecGrid.        *)

\* The slot indexes that the lookups still in flight of the invocation at index
\* t write to when they resolve to a book: emptySlots[i] for each bookPromises[i]
\* not yet awaited.
InFlightTargets(t) ==
    IF gridTasks[t].kind = "populate" /\ gridTasks[t].stage = "books"
    THEN {gridTasks[t].emptySlots[k] :
            k \in {m \in DOMAIN gridTasks[t].emptySlots :
                     m > gridTasks[t].i /\ m <= gridTasks[t].recommendations}}
    ELSE {}

\* C25: no two recommendation lookups in flight write the same slot: within one
\* populate the slot indexes are distinct, and the indexes of one populate in
\* flight are distinct from those of every other populate in flight.
C25_DistinctSlotPerResolution ==
    /\ \A t \in DOMAIN gridTasks :
          gridTasks[t].kind = "populate" => NoRepetition(gridTasks[t].emptySlots)
    /\ \A t1 \in DOMAIN gridTasks : \A t2 \in DOMAIN gridTasks :
          t1 # t2 => InFlightTargets(t1) \cap InFlightTargets(t2) = {}

\* C26: populateGridSuggestions writes a suggestion only into a slot that is
\* empty at the moment of the write, also when the slot was filled after the
\* invocation read its list of empty slots.
C26_WritesOnlyEmptySlots ==
    [][\A t \in 1..MaxGridTasks, bookData \in LibraryBooks :
          populateBookSettles(t, bookData) =>
              \A k \in DOMAIN bookGrid.slots :
                  bookGrid.slots[k].status # "empty" =>
                      bookGrid'.slots[k] = bookGrid.slots[k]]_vars

----------------------------------------------------------------------------
(* The busy flag and a failed path query, under SpecQuery.                 *)

\* C27: isFetching is true in every state in which a foreground query has been
\* dispatched and has not yet settled, also when several overlap and one of them
\* settles before the others.
C27_FetchingWhileInFlight == queries # <<>> => isFetching

\* The path query fails: the request rejects or its answer cannot be parsed
\* (None), or the answer carries no path.
PathQueryFails(outcome) ==
    \/ outcome = None
    \/ outcome[1].data = None
    \/ outcome[1].path = None

\* C29: when a path query fails, then after it settles connectionPath is empty,
\* connectionMode is inactive, both endpoints are null, isFetching is false and
\* the failure caption is set.
C29_FailedPathQueryResets ==
    [][\A q \in DOMAIN queries, outcome \in LlmOutcomes :
           /\ queries[q].kind = "findConnection"
           /\ PathQueryFails(outcome)
           /\ queryLlmSettles(q, outcome)
           => /\ connectionPath' = <<>>
              /\ connectionMode' = "inactive"
              /\ connectionStartNode' = None
              /\ connectionEndNode' = None
              /\ ~isFetching'
              /\ caption' = Some("Sorry, I could not find a connection.")]_vars

----------------------------------------------------------------------------
(* What a merge fills in, under SpecMerge.                                 *)

\* C28: when a batch merges an entity into a stored node, every field of the
\* node (description, publicationYear, series, api_key, imageUrl) that is null
\* and non-null in the entity holds the entity's value afterwards, and
\* lastUpdated is the timestamp of the batch.
C28_NullFieldsFilled ==
    \A data \in MergeData :
        LET incoming == data[1].nodes[1][1]
            r == AddOutcome(data, None, TRUE)
        IN  \A i \in DOMAIN nodes :
                nodes[i].id = NodeId(incoming.type, incoming.label) =>
                    /\ \A f \in FieldNames :
                          nodes[i][f] = None /\ incoming[f] # None =>
                              r.nodes[i][f] = incoming[f]
                    /\ r.nodes[i].lastUpdated = now

----------------------------------------------------------------------------
(* libraryApi.ts: fetchOpenLibrary, the cache in front of throttledFetch.  *)
(* Paths are numbered and the cache key of a path is the path.  A request  *)
(* in flight is a record of requests: pc "sleeping" (in throttledFetch's   *)
(* setTimeout until wake), "fetching" (awaiting fetch and json) or         *)
(* "retryWait" (the one-second wait before the retry).                     *)

RETRY_WAIT == 1000

MaxRequests == 2
MaxFetchPath == 2
MaxFetchTime == 1400

FetchPaths == 1..MaxFetchPath

\* The clock advances by the throttle interval or by the retry wait.
FetchSteps == {API_CALL_INTERVAL, RETRY_WAIT}

\* Response bodies, as JSON text; JSON null parses to a falsy value.
JsonBodies == {"{\"docs\":[]}", "null"}
JsonTruthy(text) == text \notin {"null", "0", "false", "\"\""}

\* What fetch and response.json() give: a body with response.ok, a response
\* that is not ok, a rejected fetch ('Failed to fetch'), or a body that is not
\* JSON.
Responses ==
    {[kind |-> "ok", body |-> b] : b \in JsonBodies}
      \cup {[kind |-> k, body |-> "<html>"] : k \in {"notOk", "rejected", "badJson"}}

\* The path itself contains 'network' or 'fetch' (a title searched for), so the
\* message of the not-ok error, which quotes the path, does too.
PathMentionsNetwork(path) == path = MaxFetchPath

\* error.message?.includes('network') || error.message?.includes('fetch')
IsNetworkError(path, response) ==
    \/ response.kind = "rejected"
    \/ response.kind = "notOk" /\ PathMentionsNetwork(path)

\* A lookup that never takes the cached value.
CacheIgnored(cached) == FALSE

\* if (cached) return cached
CacheHit(cached) == cached # None /\ JsonTruthy(cached[1])

\* throttledFetch for the request rec: it sleeps when the last call is too
\* recent, else stamps lastApiCallTimestamp and fetches.
EnterThrottle(rec) ==
    LET timeSinceLastCall == now - lastApiCallTimestamp
    IN  IF timeSinceLastCall < API_CALL_INTERVAL
        THEN [request |-> [rec EXCEPT !.pc = "sleeping",
                                      !.wake = now + (API_CALL_INTERVAL - timeSinceLastCall)],
              fetched |-> FALSE]
        ELSE [request |-> [rec EXCEPT !.pc = "fetching", !.wake = 0], fetched |-> TRUE]

\* fetchOpenLibrary(path) up to its return on a cache hit or to its first await.
fetchOpenLibrary(path) ==
    /\ \E o \in {CacheGet(cache, cacheTimestamps, path, now)} :
          /\ cache' = o.cache
          /\ cacheTimestamps' = o.timestamps
          /\ IF CacheHit(o.result)
             THEN UNCHANGED <<requests, lastApiCallTimestamp, fetchTimes>>
             ELSE /\ Len(requests) < MaxRequests
                  /\ Len(fetchTimes) + Len(requests) < MaxThrottleCalls
                  /\ \E e \in {EnterThrottle([path |-> path, pc |-> "new", wake |-> 0,
                                              attempt |-> 1])} :
                        /\ requests' = Append(requests, e.request)
                        /\ lastApiCallTimestamp' =
                              IF e.fetched THEN now ELSE lastApiCallTimestamp
                        /\ fetchTimes' =
                              IF e.fetched THEN Append(fetchTimes, now) ELSE fetchTimes
    /\ UNCHANGED <<touchOrder, insertedAt, sleepers, graphVars, limiterVars, retry, gridVars,
                   savedGraph, auxTasks, now>>

\* The timer of throttledFetch fires for the request at index r.
requestWakes(r) ==
    /\ r \in DOMAIN requests
    /\ requests[r].pc = "sleeping"
    /\ requests[r].wake <= now
    /\ requests' = [requests EXCEPT ![r].pc = "fetching", ![r].wake = 0]
    /\ lastApiCallTimestamp' = now
    /\ fetchTimes' = Append(fetchTimes, now)
    /\ UNCHANGED <<cacheVars, sleepers, graphVars, limiterVars, retry, gridVars, savedGraph,
                   auxTasks, now>>

\* fetch and response.json() settle for the request at index r: a body of an ok
\* response is stored and returned; a network error of the first attempt leads
\* to the retry wait; every other failure is thrown.
responseSettles(r, response) ==
    /\ r \in DOMAIN requests
    /\ requests[r].pc = "fetching"
    /\ IF response.kind = "ok"
       THEN /\ \E o \in {CacheSet(cache, cacheTimestamps, requests[r].path,
                                  response.body, now)} :
                  /\ cache' = o.cache
                  /\ cacheTimestamps' = o.timestamps
            /\ UNCHANGED <<touchOrder, insertedAt>>
            /\ requests' = RemoveAt(requests, r)
       ELSE /\ UNCHANGED cacheVars
            /\ requests' =
                  IF requests[r].attempt = 1 /\ IsNetworkError(requests[r].path, response)
                  THEN [requests EXCEPT ![r].pc = "retryWait",
                                        ![r].wake = now + RETRY_WAIT,
                                        ![r].attempt = 2]
                  ELSE RemoveAt(requests, r)
    /\ UNCHANGED <<throttleVars, graphVars, limiterVars, retry, gridVars, savedGraph,
                   auxTasks, now>>

\* The retry wait of the request at index r ends: throttledFetch once more.
retryWaitEnds(r) ==
    /\ r \in DOMAIN requests
    /\ requests[r].pc = "retryWait"
    /\ requests[r].wake <= now
    /\ \E e \in {EnterThrottle(requests[r])} :
          /\ requests' = [requests EXCEPT ![r] = e.request]
          /\ lastApiCallTimestamp' = IF e.fetched THEN now ELSE lastApiCallTimestamp
          /\ fetchTimes' = IF e.fetched THEN Append(fetchTimes, now) ELSE fetchTimes
    /\ UNCHANGED <<cacheVars, sleepers, graphVars, limiterVars, retry, gridVars, savedGraph,
                   auxTasks, now>>

FetchTick(step) ==
    /\ now + step <= MaxFetchTime
    /\ now' = now + step
    /\ UNCHANGED <<graphVars, utilVars>>

NextFetch ==
    \/ \E path \in FetchPaths : fetchOpenLibrary(path)
    \/ \E r \in 1..MaxRequests : requestWakes(r)
    \/ \E r \in 1..MaxRequests, response \in Responses : responseSettles(r, response)
    \/ \E r \in 1..MaxRequests : retryWaitEnds(r)
    \/ \E step \in FetchSteps : FetchTick(step)

SpecFetch == InitThrottle /\ [][NextFetch]_vars

\* The path has an unexpired cache entry.
HasUnexpiredEntry(path) ==
    CacheHasKey(cache, path) /\ ~CacheExpired(cacheTimestamps, path, now)

CachedValue(path) == cache[CacheIndexOf(cache, path)].value

\* A call of fetchOpenLibrary(path) that returns at once with value: nothing
\* new is in flight, no call was issued and the throttle is as it was.
ReturnsFromCache(path, value) ==
    /\ fetchOpenLibrary(path)
    /\ CacheGet(cache, cacheTimestamps, path, now).result = Some(value)
    /\ UNCHANGED <<requests, fetchTimes, lastApiCallTimestamp, sleepers>>

\* Only bodies of ok responses are in the cache.
OnlySuccessfulStored ==
    \A i \in DOMAIN cache : cache[i].value \in JsonBodies

\* C31 as claimed: a request whose path has an unexpired cache entry returns the
\* cached value without a network call, without waiting on the throttle and
\* without updating lastApiCallTimestamp; only successful responses are stored.
C31_HitBypassesNetwork ==
    [][/\ \A path \in FetchPaths :
             fetchOpenLibrary(path) /\ HasUnexpiredEntry(path)
                 => ReturnsFromCache(path, CachedValue(path))
       /\ OnlySuccessfulStored']_vars

\* C31 as amended: the same for a path whose unexpired cache entry holds a
\* truthy value.
C31_TruthyHitBypassesNetwork ==
    [][/\ \A path \in FetchPaths :
             /\ fetchOpenLibrary(path)
             /\ HasUnexpiredEntry(path)
             /\ JsonTruthy(CachedValue(path))
             => ReturnsFromCache(path, CachedValue(path))
       /\ OnlySuccessfulStored']_vars

\* C31 witness: a path holds an unexpired truthy entry, at least two calls went
\* out before, and the throttle would make a call issued now wait.
C31_Witness ==
    /\ \E path \in FetchPaths :
          /\ HasUnexpiredEntry(path)
          /\ JsonTruthy(CachedValue(path))
    /\ now - lastApiCallTimestamp < API_CALL_INTERVAL
    /\ Len(fetchTimes) >= 2

(***************************************************************************)
(* The retryAfter hint of a rejected check.                                *)
(***************************************************************************)

\* The oldest admission that is still inside the window ending now.
OldestInWindow == admissions[CHOOSE i \in AdmittedInWindow : \A j \in AdmittedInWindow : i <= j]

\* C32 as claimed: a rejected check() reports retryAfter = window - (now -
\* oldestTimestamp), in the unit of window, oldestTimestamp being the oldest
\* admission still inside the window.
C32_RetryAfterInWindowUnit ==
    LET o == LimiterCheck(limiterTimestamps, now)
    IN  ~o.allowed => o.retryAfter = Some(LimiterWindow - (now - OldestInWindow))

\* C32 as amended: a rejected check() reports retryAfter = ceil((window - (now -
\* oldestTimestamp)) / 1000), the least whole number of seconds that covers the
\* milliseconds left in the window.
C32_RetryAfterInSeconds ==
    LET o == LimiterCheck(limiterTimestamps, now)
        left == LimiterWindow - (now - OldestInWindow)
    IN  ~o.allowed =>
            /\ o.retryAfter # None
            /\ o.retryAfter[1] * MsPerSecond >= left
            /\ (o.retryAfter[1] - 1) * MsPerSecond < left

\* C32 witness: a check is rejected while the time left in the window is not a
\* whole number of seconds.
C32_Witness ==
    /\ ~LimiterCheck(limiterTimestamps, now).allowed
    /\ wasRejected
    /\ (LimiterWindow - (now - OldestInWindow)) % MsPerSecond # 0

(***************************************************************************)
(* The waits of retryWithBackoff.                                          *)
(***************************************************************************)

RECURSIVE Pow2(_)
Pow2(n) == IF n = 0 THEN 1 ELSE 2 * Pow2(n - 1)

\* min(initialDelay * 2^(k-1), maxDelay)
BackoffWait(initialDelay, maxDelay, k) ==
    IF initialDelay * Pow2(k - 1) < maxDelay THEN initialDelay * Pow2(k - 1) ELSE maxDelay

\* Every wait slept so far follows the formula and is at most maxDelay.
WaitsFollowFormula(r) ==
    \A k \in DOMAIN r.waits :
        /\ r.waits[k] = BackoffWait(r.initialDelay, r.maxDelay, k)
        /\ r.waits[k] <= r.maxDelay

\* C33 as claimed: for any initialDelay and maxDelay, the wait before the k-th
\* retry is min(initialDelay * 2^(k-1), maxDelay), and no wait exceeds maxDelay.
C33_WaitsDoubleUpToMax ==
    retry # None => WaitsFollowFormula(retry[1])

\* C33 as amended: the same for any initialDelay that is at most maxDelay.
C33_WaitsDoubleUpToMaxFromBelow ==
    retry # None /\ retry[1].initialDelay <= retry[1].maxDelay
        => WaitsFollowFormula(retry[1])

\* C33 witness: initialDelay is below maxDelay, two waits were slept and the
\* second one was cut to maxDelay.
C33_Witness ==
    /\ retry # None
    /\ retry[1].initialDelay < retry[1].maxDelay
    /\ Len(retry[1].waits) = 2
    /\ retry[1].waits[2] = retry[1].maxDelay
    /\ retry[1].initialDelay * 2 > retry[1].maxDelay

(***************************************************************************)
(* The path finder's fields in every reachable state.                      *)
(***************************************************************************)

\* C34: connectionStartNode is non-null exactly when connectionMode is
\* selectingEnd, and connectionEndNode is non-null only when connectionMode is
\* selectingEnd, after any sequence of toggles, clicks on a node or on nothing,
\* queries, resets and path-query completions.
C34_EndpointsMatchMode ==
    /\ connectionStartNode # None <=> connectionMode = "selectingEnd"
    /\ connectionEndNode # None => connectionMode = "selectingEnd"

----------------------------------------------------------------------------
(* startJourney and the init() it falls back to.  A task of journeyTasks   *)
(* is one invocation, at its await: of the journey file ("fetching"), of   *)
(* the minimum display time ("waiting"), of the timer of the finally block *)
(* ("timer"), or, for init(), of the initial graph ("initFetching") and of *)
(* its minimum display time ("initWaiting").                               *)

MaxJourneys == 1

ErrJourney == "Could not load the J journey. Please try again."
ErrInitialGraph == "Could not load the initial literary universe."

\* What a journey file or the initial graph parses to; None when the fetch
\* rejects, the status is not ok or the body is not JSON.
JourneyData ==
    {None,
     Batch(<<Entity("book", "A", Known)>>, Some(<<>>)),
     Batch(<<Entity("book", "A", Known), Entity("author", "B", Known)>>,
           Some(<<[source |-> "B", target |-> "A"]>>))}

\* What the generative client answers while journeys load: a rejection, or
\* entities with a path that names them.
JourneyLlmOutcomes ==
    {None,
     Some([data |-> Batch(<<Entity("author", "B", Known)>>, Some(<<>>)),
           path |-> None]),
     Some([data |-> Batch(<<Entity("author", "B", Known), Entity("book", "A", Known)>>,
                          Some(<<[source |-> "A", target |-> "B"]>>)),
           path |-> Some(<<"A", "B">>)])}

JourneyTask(pc, errorMsg) == [pc |-> pc, errorMsg |-> errorMsg]

ReplaceAt(seq, i, e) == [k \in DOMAIN seq |-> IF k = i THEN e ELSE seq[k]]

\* A start that leaves the shown path as it is.
startJourneyKeepingPath ==
    /\ Len(journeyTasks) < MaxJourneys
    /\ connectionMode' = "inactive"
    /\ connectionStartNode' = None
    /\ connectionEndNode' = None
    /\ UNCHANGED connectionPath
    /\ isFetching' = TRUE
    /\ nodes' = <<>>
    /\ edges' = <<>>
    /\ caption' = None
    /\ selectedNode' = None
    /\ didInit' = FALSE
    /\ latestQueryTimestamp' = None
    /\ visualizationMode' = "graph"
    /\ journeyTasks' = Append(journeyTasks, JourneyTask("fetching", None))
    /\ UNCHANGED <<expandingNodeId, isGroundedSearchActive, queries, enrichTasks, now,
                   cacheVars, limiterVars, throttleVars, retry, bookGrid, gridTasks,
                   savedGraph, requests, summaryTasks>>

\* startJourney(journeyName) up to its first await.
startJourney ==
    /\ Len(journeyTasks) < MaxJourneys
    /\ connectionMode' = "inactive"
    /\ connectionStartNode' = None
    /\ connectionEndNode' = None
    /\ connectionPath' = <<>>
    /\ isFetching' = TRUE
    /\ nodes' = <<>>
    /\ edges' = <<>>
    /\ caption' = None
    /\ selectedNode' = None
    /\ didInit' = FALSE
    /\ latestQueryTimestamp' = None
    /\ visualizationMode' = "graph"
    /\ journeyTasks' = Append(journeyTasks, JourneyTask("fetching", None))
    /\ UNCHANGED <<expandingNodeId, isGroundedSearchActive, queries, enrichTasks, now,
                   cacheVars, limiterVars, throttleVars, retry, bookGrid, gridTasks,
                   savedGraph, requests, summaryTasks>>

\* The journey file of the task at index j settles.  On success the data is
\* merged with timestamp 0 and without enrichment, and the minimum display
\* time is awaited.  On failure, or when the merge throws, the catch block
\* writes the caption and calls init(), which returns at once when didInit is
\* set and else starts fetching the initial graph; the finally block starts
\* its timer.  init() runs inside the producer of the catch block, whose result
\* replaces what init() wrote before its first await.
journeyFileSettles(j, journeyData) ==
    /\ j \in DOMAIN journeyTasks
    /\ journeyTasks[j].pc = "fetching"
    /\ \E r \in {AddOutcome(journeyData, Some(0), TRUE)} :
          IF journeyData # None /\ r.status # "threw"
          THEN /\ WithinBounds(r)
               /\ nodes' = r.nodes
               /\ edges' = r.edges
               /\ caption' = r.caption
               /\ journeyTasks' = ReplaceAt(journeyTasks, j, JourneyTask("waiting", None))
          ELSE /\ caption' = Some(ErrJourney)
               /\ journeyTasks' =
                     ReplaceAt(journeyTasks, j, JourneyTask("timer", None))
                        \o IF didInit THEN <<>> ELSE <<JourneyTask("initFetching", None)>>
               /\ UNCHANGED <<nodes, edges>>
    /\ UNCHANGED <<latestQueryTimestamp, isFetching, selectedNode, expandingNodeId,
                   isGroundedSearchActive, connectionVars, queries, enrichTasks, now,
                   cacheVars, limiterVars, throttleVars, retry, gridVars, savedGraph,
                   requests, summaryTasks, didInit>>

\* The minimum display time of the journey has passed.
journeyWaitEnds(j) ==
    /\ j \in DOMAIN journeyTasks
    /\ journeyTasks[j].pc = "waiting"
    /\ didInit' = TRUE
    /\ journeyTasks' = ReplaceAt(journeyTasks, j, JourneyTask("timer", None))
    /\ UNCHANGED <<graphVars, now, cacheVars, limiterVars, throttleVars, retry, gridVars,
                   savedGraph, requests, summaryTasks>>

\* The timer of the finally block fires.
journeyTimerFires(j) ==
    /\ j \in DOMAIN journeyTasks
    /\ journeyTasks[j].pc = "timer"
    /\ isFetching' = FALSE
    /\ journeyTasks' = RemoveAt(journeyTasks, j)
    /\ UNCHANGED <<nodes, edges, caption, latestQueryTimestamp, selectedNode,
                   expandingNodeId, isGroundedSearchActive, connectionVars, queries,
                   enrichTasks, now, cacheVars, limiterVars, throttleVars, retry, gridVars,
                   savedGraph, requests, summaryTasks, didInit>>

\* The initial graph of init() settles: merged on success, an error message
\* kept for later on failure; the minimum display time is awaited.
initFileSettles(j, initialData) ==
    /\ j \in DOMAIN journeyTasks
    /\ journeyTasks[j].pc = "initFetching"
    /\ \E r \in {AddOutcome(initialData, Some(0), TRUE)} :
          IF initialData # None /\ r.status # "threw"
          THEN /\ WithinBounds(r)
               /\ nodes' = r.nodes
               /\ edges' = r.edges
               /\ caption' = r.caption
               /\ journeyTasks' = ReplaceAt(journeyTasks, j, JourneyTask("initWaiting", None))
          ELSE /\ journeyTasks' =
                     ReplaceAt(journeyTasks, j,
                               JourneyTask("initWaiting", Some(ErrInitialGraph)))
               /\ UNCHANGED <<nodes, edges, caption>>
    /\ UNCHANGED <<latestQueryTimestamp, isFetching, selectedNode, expandingNodeId,
                   isGroundedSearchActive, connectionVars, queries, enrichTasks, now,
                   cacheVars, limiterVars, throttleVars, retry, gridVars, savedGraph,
                   requests, summaryTasks, didInit>>

\* The minimum display time of init() has passed.
initWaitEnds(j) ==
    /\ j \in DOMAIN journeyTasks
    /\ journeyTasks[j].pc = "initWaiting"
    /\ caption' = IF journeyTasks[j].errorMsg # None THEN journeyTasks[j].errorMsg
                                                     ELSE caption
    /\ didInit' = TRUE
    /\ journeyTasks' = RemoveAt(journeyTasks, j)
    /\ UNCHANGED <<nodes, edges, latestQueryTimestamp, isFetching, selectedNode,
                   expandingNodeId, isGroundedSearchActive, connectionVars, queries,
                   enrichTasks, now, cacheVars, limiterVars, throttleVars, retry, gridVars,
                   savedGraph, requests, summaryTasks>>

JourneySteps == 1..(2 * MaxJourneys)

NextJourney ==
    \/ sendQuery
    \/ \E q \in 1..MaxQueries, apiData \in LibraryData : searchLiterarySettles(q, apiData)
    \/ \E q \in 1..MaxQueries, outcome \in JourneyLlmOutcomes : queryLlmSettles(q, outcome)
    \/ \E nodeId \in ClickTargets : setSelectedNode(nodeId)
    \/ toggleConnectionMode
    \/ clearQuery
    \/ startJourney
    \/ \E j \in JourneySteps, journeyData \in JourneyData : journeyFileSettles(j, journeyData)
    \/ \E j \in JourneySteps : journeyWaitEnds(j)
    \/ \E j \in JourneySteps : journeyTimerFires(j)
    \/ \E j \in JourneySteps, initialData \in JourneyData : initFileSettles(j, initialData)
    \/ \E j \in JourneySteps : initWaitEnds(j)

SpecJourney == Init /\ [][NextJourney]_vars

\* C35: under any interleaving of searches, expansions, path queries, clearQuery
\* and startJourney, every id in connectionPath is the id of a node currently
\* in the store.
C35_PathIdsInStore ==
    \A k \in DOMAIN connectionPath : NodeExists(nodes, connectionPath[k])

\* C35 witness: a path of two stored nodes is shown after a journey was started
\* and its file loaded, while a query is still in flight.
C35_Witness ==
    /\ Len(connectionPath) = 2
    /\ didInit
    /\ Len(queries) > 0

(***************************************************************************)
(* The slots of the wall in every reachable state.                         *)
(***************************************************************************)

\* C36: a slot has non-null bookData if and only if its status is suggested or
\* locked, after any sequence of seed, populate, lock(index), dismiss(index)
\* and addBookToGrid.
C36_BookDataMatchesStatus ==
    \A k \in DOMAIN bookGrid.slots :
        bookGrid.slots[k].bookData # None
            <=> bookGrid.slots[k].status \in {"suggested", "locked"}

(***************************************************************************)
(* The size of the LRUCache in every reachable state.                      *)
(***************************************************************************)

\* C37: after any sequence of set, get, has, delete and clear, the number of
\* stored entries never exceeds the capacity.
C37_SizeWithinCapacity ==
    /\ Len(cache) <= CacheMax
    /\ Cardinality(DOMAIN cacheTimestamps) <= CacheMax

\* C37 witness: more distinct keys than the capacity were set at the current
\* time, so none of them has expired, and the cache is full.
C37_Witness ==
    /\ Len(cache) = CacheMax
    /\ Cardinality({k \in DOMAIN insertedAt : insertedAt[k] = now}) > CacheMax

(***************************************************************************)
(* The admissions of the RateLimiter over time.                            *)
(***************************************************************************)

\* The times from now on at which the clock of the limiter can stand.
LaterTimes == {now + k * LimiterStep : k \in 0..((MaxLimiterTime - now) \div LimiterStep)}

\* C38: with a non-decreasing clock, any LimiterMax + 1 admissions are at least
\* LimiterWindow apart, so that an interval [t, t + LimiterWindow) holds at most
\* LimiterMax admissions, whatever checks and remaining reads are made; and a
\* rejected check() records no timestamp: the checks after it are admitted at
\* the same times as without it.
C38_AtMostMaxPerWindow ==
    /\ \A i, j \in DOMAIN admissions :
           j >= i + LimiterMax => admissions[j] - admissions[i] >= LimiterWindow
    /\ LET o == LimiterCheck(limiterTimestamps, now)
       IN  ~o.allowed =>
               /\ Len(o.timestamps) <= Len(limiterTimestamps)
               /\ \A t \in LaterTimes :
                      LimiterCheck(o.timestamps, t).allowed
                          = LimiterCheck(limiterTimestamps, t).allowed

\* C38 witness: after a full window with a rejected check, later checks were
\* admitted, and the window is full again so that a check is rejected now.
C38_Witness ==
    /\ wasRejected
    /\ Len(admissions) > LimiterMax
    /\ ~LimiterCheck(limiterTimestamps, now).allowed

(***************************************************************************)
(* The lastUpdated timestamp of a node over its lifetime.                  *)
(***************************************************************************)

\* C39: the lastUpdated timestamp of a node never decreases while the node is
\* in the store, also when the results of queries dispatched at different times
\* are merged out of order.
C39_LastUpdatedNeverDecreases ==
    [][\A id \in NodeIds(nodes) \cap NodeIds(nodes') :
           NodeAt(nodes', id).lastUpdated >= NodeAt(nodes, id).lastUpdated]_vars

----------------------------------------------------------------------------
(* generateAiSummary.  The aiSummary of a node is None for null, the text  *)
(* 'loading...', or the JSON text of the object stored.  A task of         *)
(* summaryTasks is one invocation awaiting queryLlm.                       *)

MaxSummaryTasks == 3

LOADING == "loading..."
ErrorSummary == "{\"error\":\"Failed to generate analysis. Please try again.\"}"

\* What response.text holds when queryLlm fulfils with text that parses: the
\* object asked for, or the JSON null.
SummaryTexts == {"{\"summary\":\"s\",\"analysis\":\"a\"}", "null"}

\* None: queryLlm rejects or parseLlmJson throws; else the text parsed.
SummaryOutcomes == {None} \cup {Some(text) : text \in SummaryTexts}

\* JSON.parse of a text that parses: null for "null", else the value.
JsonParse(text) == IF text = "null" THEN None ELSE Some(text)

SummaryTargets == {NodeId("book", "A"), NodeId("author", "B")}

\* generateAiSummary(nodeId) up to its await: it returns at once for a node
\* that is not stored or whose aiSummary is truthy.
generateAiSummary(nodeId) ==
    /\ IF ~NodeExists(nodes, nodeId) \/ NodeAt(nodes, nodeId).aiSummary # None
       THEN UNCHANGED <<nodes, summaryTasks>>
       ELSE /\ Len(summaryTasks) < MaxSummaryTasks
            /\ nodes' = WriteIfPresent(nodes, nodeId, "aiSummary", Some(LOADING))
            /\ summaryTasks' = Append(summaryTasks, [nodeId |-> nodeId])
    /\ UNCHANGED <<edges, caption, latestQueryTimestamp, isFetching, selectedNode,
                   expandingNodeId, isGroundedSearchActive, connectionVars, queries,
                   enrichTasks, now, cacheVars, limiterVars, throttleVars, retry, gridVars,
                   savedGraph, requests, journeyTasks, didInit>>

\* queryLlm settles for the task at index s: the parsed answer or, when the
\* request or the parse fails, the error object is written to nodes[nodeId].
\* For a node that is no longer stored both writes throw and nothing changes.
summarySettles(s, outcome) ==
    /\ s \in DOMAIN summaryTasks
    /\ nodes' = WriteIfPresent(nodes, summaryTasks[s].nodeId, "aiSummary",
                               IF outcome = None THEN Some(ErrorSummary)
                                                 ELSE JsonParse(outcome[1]))
    /\ summaryTasks' = RemoveAt(summaryTasks, s)
    /\ UNCHANGED <<edges, caption, latestQueryTimestamp, isFetching, selectedNode,
                   expandingNodeId, isGroundedSearchActive, connectionVars, queries,
                   enrichTasks, now, cacheVars, limiterVars, throttleVars, retry, gridVars,
                   savedGraph, requests, journeyTasks, didInit>>

\* The graph summaries are asked for: a book, or the book and its author.
SummaryGraphData ==
    {Batch(<<Entity("book", "A", Known)>>, Some(<<>>)),
     Batch(<<Entity("book", "A", Known), Entity("author", "B", Known)>>,
           Some(<<[source |-> "B", target |-> "A"]>>))}

NextSummary ==
    \/ \E data \in SummaryGraphData : addNewDataToGraph(data, None, TRUE)
    \/ clearQuery
    \/ \E nodeId \in SummaryTargets : generateAiSummary(nodeId)
    \/ \E s \in 1..MaxSummaryTasks, outcome \in SummaryOutcomes : summarySettles(s, outcome)

SpecSummary == Init /\ [][NextSummary]_vars

\* Every request that was issued settles.
FairSpecSummary ==
    SpecSummary /\ WF_vars(\E s \in 1..MaxSummaryTasks, outcome \in SummaryOutcomes :
                               summarySettles(s, outcome))

\* The variant of the summary that an aiSummary value stands for.
SummaryVariant(aiSummary) ==
    IF aiSummary = None THEN "Unrequested"
    ELSE IF aiSummary[1] = LOADING THEN "Pending"
    ELSE IF aiSummary[1] = ErrorSummary THEN "Failed"
    ELSE "Ready"

VariantOf(ns, id) == SummaryVariant(NodeAt(ns, id).aiSummary)

RequestsInFlight(tasks, id) == Cardinality({s \in DOMAIN tasks : tasks[s].nodeId = id})

\* C40: while a node is in the store its summary moves only from Unrequested to
\* Pending and from Pending to Ready or Failed, and never leaves Ready or
\* Failed; generateAiSummary on a node whose summary is pending, ready or failed
\* changes nothing, and no node has more than one summary request in flight.
C40_SummaryLifecycle ==
    [][/\ \A id \in NodeIds(nodes) \cap NodeIds(nodes') :
             \/ NodeAt(nodes', id).aiSummary = NodeAt(nodes, id).aiSummary
             \/ VariantOf(nodes, id) = "Unrequested" /\ VariantOf(nodes', id) = "Pending"
             \/ VariantOf(nodes, id) = "Pending"
                    /\ VariantOf(nodes', id) \in {"Ready", "Failed"}
       /\ \A id \in SummaryTargets :
             generateAiSummary(id) /\ NodeExists(nodes, id)
                                   /\ VariantOf(nodes, id) # "Unrequested"
                 => UNCHANGED vars
       /\ \A id \in SummaryTargets : RequestsInFlight(summaryTasks', id) <= 1]_vars

\* The eventual part of C40: a pending summary of a stored node becomes ready
\* or failed, or the node leaves the store.
C40_PendingSettles ==
    \A id \in SummaryTargets :
        (NodeExists(nodes, id) /\ VariantOf(nodes, id) = "Pending")
            ~> (~NodeExists(nodes, id) \/ VariantOf(nodes, id) \in {"Ready", "Failed"})

====
